---- MODULE Spec2Model ----
(***************************************************************************)
(* A model of the tabled (SLG) resolution engine of slg-prolog-solver:     *)
(* terms, substitutions and unification (substitution.rs), the             *)
(* canonicalizer (canonicalize.rs), the knowledge base, the table / strand *)
(* / stack state machine (solver/table.rs, solver/stack.rs) and the goal   *)
(* iteration surface create_goal_state / pull_next_goal.                   *)
(*                                                                         *)
(* Every Rust function that takes &mut self on the Solver is an operator   *)
(* that takes the solver record s and returns the updated record together  *)
(* with the function's result, so that one call of the public surface is   *)
(* one action of the state machine.                                        *)
(***************************************************************************)
EXTENDS Integers, Sequences, FiniteSets, TLC

\* ------------------------------------------------------------------ terms
\* term.rs: enum Term { Atom(String), Variable(usize), Compound(String, Vec<Term>) }
Atom(n) == [tag |-> "atom", name |-> n, idx |-> 0, args |-> <<>>]
Variable(i) == [tag |-> "var", name |-> "", idx |-> i, args |-> <<>>]
Compound(f, as) == [tag |-> "comp", name |-> f, idx |-> 0, args |-> as]

\* clause.rs: Predicate { name, arguments }, Goal { predicate }, Clause { head, body }
Predicate(n, as) == [name |-> n, arguments |-> as]
Goal(p) == [predicate |-> p]
Clause(h, b) == [head |-> h, body |-> b]

\* Option<usize>::None of max_inference_variable_index
NoIndex == -1

Max(S) == CHOOSE x \in S : \A y \in S : y <= x
Min(S) == CHOOSE x \in S : \A y \in S : x <= y

RECURSIVE TermVars(_)
TermVars(t) ==
    IF t.tag = "var" THEN {t.idx}
    ELSE IF t.tag = "comp" THEN UNION {TermVars(t.args[i]) : i \in DOMAIN t.args}
    ELSE {}

PredicateVars(p) == UNION {TermVars(p.arguments[i]) : i \in DOMAIN p.arguments}

\* the variables of the goals
GoalsVars(goals) == UNION {PredicateVars(goals[i].predicate) : i \in DOMAIN goals}

ClauseVars(clause) ==
    PredicateVars(clause.head)
        \cup UNION {PredicateVars(clause.body[i].predicate) : i \in DOMAIN clause.body}

\* Goal::max_variable_index: the largest variable index of the goal, or None
max_variable_index(goal) ==
    IF PredicateVars(goal.predicate) = {} THEN NoIndex
    ELSE Max(PredicateVars(goal.predicate))

\* ---------------------------------------------------------- substitutions
\* Substitution { mapping: HashMap<usize, Term> } is the function mapping.
EmptySubstitution == [k \in {} |-> Atom("")]

\* The iteration order of a HashMap is not fixed by the program (std's
\* RandomState is seeded per map): hash names the order one call observes,
\* ascending or descending by key.
HashOrders == {"asc", "desc"}
FirstKey(keys, hash) == IF hash = "asc" THEN Min(keys) ELSE Max(keys)

RECURSIVE apply_term(_, _)
apply_term(sub, t) ==
    IF t.tag = "atom" THEN t
    ELSE IF t.tag = "var"
         THEN IF t.idx \in DOMAIN sub THEN sub[t.idx] ELSE t
    ELSE Compound(t.name, [i \in DOMAIN t.args |-> apply_term(sub, t.args[i])])

RECURSIVE compose_mapping_in_term(_, _, _)
compose_mapping_in_term(t, variable, term_to_insert) ==
    IF t.tag = "var" /\ t.idx = variable THEN term_to_insert
    ELSE IF t.tag = "comp"
         THEN Compound(t.name, [i \in DOMAIN t.args |->
                 compose_mapping_in_term(t.args[i], variable, term_to_insert)])
    ELSE t

\* insert_mapping that leaves the terms already bound as they are
insert_mapping_without_composing(sub, variable, term) ==
    [k \in DOMAIN sub \cup {variable} |-> IF k = variable THEN term ELSE sub[k]]

\* Substitution::insert_mapping: the variable is replaced by the term in
\* every term already bound, then bound to the term
insert_mapping(sub, variable, term) ==
    [k \in DOMAIN sub \cup {variable} |->
        IF k = variable THEN term
        ELSE compose_mapping_in_term(sub[k], variable, term)]

apply_predicate(sub, p) ==
    Predicate(p.name, [i \in DOMAIN p.arguments |-> apply_term(sub, p.arguments[i])])

\* occurs_check that never reports an occurrence
occurs_check_never(variable, t) == FALSE

\* occurs_check that reports an occurrence in every term with a variable
occurs_check_of_any_variable(variable, t) ==
    TermVars(t) # {}

RECURSIVE occurs_check(_, _)
occurs_check(variable, t) ==
    IF t.tag = "atom" THEN FALSE
    ELSE IF t.tag = "var" THEN t.idx = variable
    ELSE \E i \in DOMAIN t.args : occurs_check(variable, t.args[i])

\* Option<Substitution>: [ok |-> FALSE] is None
Some(sub) == [ok |-> TRUE, sub |-> sub]
None == [ok |-> FALSE, sub |-> EmptySubstitution]

RECURSIVE unify_terms(_, _, _)
RECURSIVE unify_arguments(_, _, _, _)
unify_arguments(sub, args1, args2, i) ==
    IF i > Len(args1) THEN Some(sub)
    ELSE LET r == unify_terms(sub, args1[i], args2[i])
         IN IF r.ok THEN unify_arguments(r.sub, args1, args2, i + 1) ELSE None

unify_terms(sub, lhs0, rhs0) ==
    LET lhs == apply_term(sub, lhs0)
        rhs == apply_term(sub, rhs0)
    IN IF lhs.tag = "var" /\ rhs.tag = "var" /\ lhs.idx = rhs.idx THEN Some(sub)
       ELSE IF lhs.tag = "var"
            THEN IF occurs_check(lhs.idx, rhs) THEN None
                 ELSE Some(insert_mapping(sub, lhs.idx, rhs))
       ELSE IF rhs.tag = "var"
            THEN IF occurs_check(rhs.idx, lhs) THEN None
                 ELSE Some(insert_mapping(sub, rhs.idx, lhs))
       ELSE IF lhs.tag = "atom" /\ rhs.tag = "atom" /\ lhs.name = rhs.name THEN Some(sub)
       ELSE IF lhs.tag = "comp" /\ rhs.tag = "comp" /\ lhs.name = rhs.name
               /\ Len(lhs.args) = Len(rhs.args)
            THEN unify_arguments(sub, lhs.args, rhs.args, 1)
       ELSE None

unify_predicate(sub, lhs, rhs) ==
    IF lhs.name # rhs.name \/ Len(lhs.arguments) # Len(rhs.arguments) THEN None
    ELSE unify_arguments(sub, lhs.arguments, rhs.arguments, 1)

\* compose: insert_mapping for every (var, term) of other, in other's
\* iteration order
RECURSIVE compose_from(_, _, _, _)
compose_from(self, other, keys, hash) ==
    IF keys = {} THEN self
    ELSE LET var == FirstKey(keys, hash)
         IN compose_from(insert_mapping(self, var, other[var]), other,
                         keys \ {var}, hash)

compose(self, other, hash) == compose_from(self, other, DOMAIN other, hash)

\* -------------------------------------------------------- canonicalization
\* Term::canonicalize_internal threads (counter, mapping) through the term.
RECURSIVE canonicalize_internal(_, _, _)
RECURSIVE canonicalize_terms(_, _, _, _)
canonicalize_terms(terms, i, counter, mapping) ==
    IF i > Len(terms) THEN [terms |-> <<>>, counter |-> counter, mapping |-> mapping]
    ELSE LET r == canonicalize_internal(terms[i], counter, mapping)
             rest == canonicalize_terms(terms, i + 1, r.counter, r.mapping)
         IN [terms |-> <<r.term>> \o rest.terms, counter |-> rest.counter,
             mapping |-> rest.mapping]

\* canonicalize_internal that gives every occurrence of a variable the next
\* index, whether or not the variable was met before
canonicalize_internal_forgets_mapping(t, counter, mapping) ==
    IF t.tag = "atom" THEN [term |-> t, counter |-> counter, mapping |-> mapping]
    ELSE IF t.tag = "var"
         THEN [term |-> Variable(counter), counter |-> counter + 1,
               mapping |-> (t.idx :> counter) @@ mapping]
    ELSE LET r == canonicalize_terms(t.args, 1, counter, mapping)
         IN [term |-> Compound(t.name, r.terms), counter |-> r.counter,
             mapping |-> r.mapping]

canonicalize_internal(t, counter, mapping) ==
    IF t.tag = "atom" THEN [term |-> t, counter |-> counter, mapping |-> mapping]
    ELSE IF t.tag = "var"
         THEN IF t.idx \in DOMAIN mapping
              THEN [term |-> Variable(mapping[t.idx]), counter |-> counter,
                    mapping |-> mapping]
              ELSE [term |-> Variable(counter), counter |-> counter + 1,
                    mapping |-> (t.idx :> counter) @@ mapping]
    ELSE LET r == canonicalize_terms(t.args, 1, counter, mapping)
         IN [term |-> Compound(t.name, r.terms), counter |-> r.counter,
             mapping |-> r.mapping]

EmptyMapping == [k \in {} |-> 0]

\* Predicate::canonicalize / Goal::canonicalize: the renamed goal and the
\* forward mapping original -> canonical
canonicalize(goal) ==
    LET r == canonicalize_terms(goal.predicate.arguments, 1, 0, EmptyMapping)
    IN [goal |-> Goal(Predicate(goal.predicate.name, r.terms)), mapping |-> r.mapping]

RECURSIVE canonicalize_body(_, _, _, _)
canonicalize_body(body, i, counter, mapping) ==
    IF i > Len(body) THEN [body |-> <<>>, counter |-> counter, mapping |-> mapping]
    ELSE LET r == canonicalize_terms(body[i].predicate.arguments, 1, counter, mapping)
             rest == canonicalize_body(body, i + 1, r.counter, r.mapping)
         IN [body |-> <<Goal(Predicate(body[i].predicate.name, r.terms))>> \o rest.body,
             counter |-> rest.counter, mapping |-> rest.mapping]

\* Clause::canonicalize_with_counter that starts at 0 whatever the counter
canonicalize_with_counter_from_zero(clause, counter) ==
    LET h == canonicalize_terms(clause.head.arguments, 1, 0, EmptyMapping)
        b == canonicalize_body(clause.body, 1, h.counter, h.mapping)
    IN Clause(Predicate(clause.head.name, h.terms), b.body)

\* Clause::canonicalize_with_counter: head arguments first, then the body
canonicalize_with_counter(clause, counter) ==
    LET h == canonicalize_terms(clause.head.arguments, 1, counter, EmptyMapping)
        b == canonicalize_body(clause.body, 1, h.counter, h.mapping)
    IN Clause(Predicate(clause.head.name, h.terms), b.body)

\* Clause::canonicalize
canonicalize_clause(clause) == canonicalize_with_counter(clause, 0)

reverse_mapping(mapping) ==
    [v \in {mapping[k] : k \in DOMAIN mapping} |->
        CHOOSE k \in DOMAIN mapping : mapping[k] = v]

RECURSIVE apply_uncanonicalization(_, _)
apply_uncanonicalization(t, uncanonicalized_mapping) ==
    IF t.tag = "var"
    THEN IF t.idx \in DOMAIN uncanonicalized_mapping
         THEN Variable(uncanonicalized_mapping[t.idx]) ELSE t
    ELSE IF t.tag = "comp"
         THEN Compound(t.name, [i \in DOMAIN t.args |->
                 apply_uncanonicalization(t.args[i], uncanonicalized_mapping)])
    ELSE t

\* uncanonicalize_substitution collects (remapped key, remapped term) pairs
\* into a new HashMap in the iteration order of the source map: when two
\* source keys are remapped to the same key the pair iterated last stays.
uncanonicalize_substitution(sub, uncanonicalized_mapping, hash) ==
    LET key(var) == IF var \in DOMAIN uncanonicalized_mapping
                    THEN uncanonicalized_mapping[var] ELSE var
        last(k) == LET src == {var \in DOMAIN sub : key(var) = k}
                   IN IF hash = "asc" THEN Max(src) ELSE Min(src)
    IN [k \in {key(var) : var \in DOMAIN sub} |->
            apply_uncanonicalization(sub[last(k)], uncanonicalized_mapping)]

\* ---------------------------------------------------------- knowledge base
\* KnowledgeBase { clauses_by_predicate_name: HashMap<String, Vec<Clause>> }
EmptyKnowledgeBase == [n \in {} |-> <<>>]

add_clause(knowledge_base, clause) ==
    LET c == canonicalize_clause(clause)
        n == c.head.name
    IN IF n \in DOMAIN knowledge_base
       THEN [knowledge_base EXCEPT ![n] = Append(@, c)]
       ELSE (n :> <<c>>) @@ knowledge_base

\* KnowledgeBase::get_clauses: the bucket of the name, empty when absent
get_clauses(knowledge_base, name) ==
    IF name \in DOMAIN knowledge_base THEN knowledge_base[name] ELSE <<>>

\* ------------------------------------------------------------------ bounds
\* Steps (tables pushed on the stack by ensure_answer) one call of the public surface
\* may take before the model reports it as not returning.
MaxSteps == 400
\* Nested create_table calls (a table whose creation creates the table of a
\* first subgoal, and so on) before the model reports table creation as not
\* returning.
MaxCreateDepth == 5

\* ------------------------------------------------------------ observations
\* What the calls made inside one call of the public surface did, kept beside
\* the Solver: one record for every distinct way ensure_answer returned,
\* Stack::push was called, cyclic classified a cycle and
\* clear_strands_after_cycle took a work-list. highest is the largest
\* depth-first number assigned so far. delayed holds, for the
\* pull_next_answer loops still running, the strands that were handed back
\* with a positive cycle and the numbers they came with (level is the height
\* of the stack with the loop's table on top). strand has one record for
\* every distinct way try_pull_next_answer_from_strand went, last is what the
\* last ensure_answer call returned, and forks holds the strands that forked
\* and whose child has not been processed since. create_table has one record
\* for every distinct way a clause was renamed and a strand was built.
NoObservations ==
    [ensure_answer |-> {}, push |-> {}, cyclic |-> {}, cleared |-> {}, highest |-> NoIndex,
     delayed |-> {}, strand |-> {}, last |-> "none", forks |-> {}, create_table |-> {}]

\* ------------------------------------------------------------------- stack
\* stack.rs: Stack { stack: Vec<Entry>, counter }, Entry { table, depth_first_number }
NewStack == [stack |-> <<>>, counter |-> 0]

\* DepthFirstNumber::MAX (usize::MAX), the neutral element of min
DFN_MAX == 2147483647

\* Stack::is_active: the position (0-based) of the first entry of the table
is_active(stack, table) ==
    LET hits == {i \in DOMAIN stack.stack : stack.stack[i].table = table}
    IN IF hits = {} THEN NoIndex ELSE Min(hits) - 1

\* Stack::push that numbers the entry by the height of the stack, so that a
\* number is handed out again after a pop
push_numbers_by_height(stack, table) ==
    [stack |-> [stack |-> Append(stack.stack,
                              [table |-> table,
                               depth_first_number |-> Len(stack.stack)]),
                counter |-> stack.counter + 1],
     index |-> Len(stack.stack)]

\* Stack::push: returns the index at which the entry was pushed
push(stack, table) ==
    [stack |-> [stack |-> Append(stack.stack,
                              [table |-> table, depth_first_number |-> stack.counter]),
                counter |-> stack.counter + 1],
     index |-> Len(stack.stack)]

\* Stack::pop (popping an empty Vec returns None and changes nothing)
pop(stack) ==
    IF stack.stack = <<>> THEN stack
    ELSE [stack EXCEPT !.stack = SubSeq(@, 1, Len(@) - 1)]

\* ---------------------------------------------------------------- results
\* enum Error / EnsureAnswer / PullAnswerFromStrand; "Fault" stands for a
\* call that does not return a value: a panic unwinding, or a computation
\* that was cut off by MaxSteps / MaxCreateDepth.
Result(kind) == [kind |-> kind, dfn |-> 0]
PositiveCyclicDependency(dfn) == [kind |-> "PositiveCyclicDependency", dfn |-> dfn]
Panic(s) == [s EXCEPT !.fault = "panic"]
Diverge(s) == [s EXCEPT !.fault = "diverged"]

\* ------------------------------------------------------------------ tables
\* Table::insert_answer without the check for an answer already present
insert_answer_always_appends(table, answer) ==
    LET answer_to_add ==
            IF table.max_inference_variable_index # NoIndex
            THEN [k \in {v \in DOMAIN answer :
                            v <= table.max_inference_variable_index} |-> answer[k]]
            ELSE EmptySubstitution
    IN [table |-> [table EXCEPT !.answers = Append(@, answer_to_add)],
        added |-> TRUE]

\* Table::insert_answer that puts a new answer in front of the answers
\* (insert(0, ..) in place of push)
insert_answer_in_front(table, answer) ==
    LET answer_to_add ==
            IF table.max_inference_variable_index # NoIndex
            THEN [k \in {v \in DOMAIN answer :
                            v <= table.max_inference_variable_index} |-> answer[k]]
            ELSE EmptySubstitution
    IN IF \E i \in DOMAIN table.answers : table.answers[i] = answer_to_add
       THEN [table |-> table, added |-> FALSE]
       ELSE [table |-> [table EXCEPT !.answers = <<answer_to_add>> \o @],
             added |-> TRUE]

\* Table::insert_answer: project, then append unless already present
insert_answer(table, answer) ==
    LET answer_to_add ==
            IF table.max_inference_variable_index # NoIndex
            THEN [k \in {v \in DOMAIN answer :
                            v <= table.max_inference_variable_index} |-> answer[k]]
            ELSE EmptySubstitution
    IN IF \E i \in DOMAIN table.answers : table.answers[i] = answer_to_add
       THEN [table |-> table, added |-> FALSE]
       ELSE [table |-> [table EXCEPT !.answers = Append(@, answer_to_add)],
             added |-> TRUE]

GoalState(table_id, answer_index, canonical_mapping) ==
    [table_id |-> table_id, answer_index |-> answer_index,
     canonical_mapping |-> canonical_mapping]

RECURSIVE get_table_id(_, _)
RECURSIVE create_table_from(_, _, _, _, _)

\* the variables a substitution binds and the variables of the terms it
\* binds them to
SubstitutionVars(sub) == DOMAIN sub \cup UNION {TermVars(sub[k]) : k \in DOMAIN sub}

\* create_table has renamed the clause for the goal: what the renaming did
\* is added to the observations
RenamedApart(s, canonicalized_goal, clause) ==
    LET m == max_variable_index(canonicalized_goal)
    IN [s EXCEPT !.observed.create_table = @ \cup
           {[step |-> "rename",
             above |-> \A v \in ClauseVars(clause) : v > m,
             apart |-> ClauseVars(clause) \cap PredicateVars(canonicalized_goal.predicate)
                           = {},
             both |-> /\ ClauseVars(clause) # {}
                      /\ PredicateVars(canonicalized_goal.predicate) # {}]}]

\* create_table has built the strand from the renamed clause: where its
\* variables come from is added to the observations
StrandCreated(s, canonicalized_goal, clause, strand) ==
    LET held == GoalsVars(strand.rest_subgoals) \cup SubstitutionVars(strand.substitution)
        of_goal == PredicateVars(canonicalized_goal.predicate)
    IN [s EXCEPT !.observed.create_table = @ \cup
           {[step |-> "strand",
             within |-> held \subseteq of_goal \cup ClauseVars(clause),
             mixed |-> held \cap of_goal # {} /\ held \cap ClauseVars(clause) # {}]}]

\* create_table, the strand of a rule pushed: the loop goes on
strand_pushed(s, clause, canonicalized_goal, i, answers, strands, strand) ==
    create_table_from(StrandCreated(s, canonicalized_goal, clause, strand),
                      canonicalized_goal, i + 1, answers, Append(strands, strand))

\* create_table, the rest of one iteration for a rule: t is what get_table_id
\* returned for the clause's first subgoal c; the strand selects that subgoal
\* and the loop goes on
push_strand(t, c, clause, substitution, canonicalized_goal, i, answers, strands) ==
    strand_pushed(t.s, clause, canonicalized_goal, i, answers, strands,
        [selected_subgoal_state |-> GoalState(t.id, 0, reverse_mapping(c.mapping)),
         rest_subgoals |-> Tail(clause.body),
         selected_subgoal |-> c.goal,
         substitution |-> substitution])

\* create_table that puts the answer of a matching fact in front of the
\* answers found so far
push_clause_in_front(s, clause, u, canonicalized_goal, i, answers, strands) ==
    IF clause.body = <<>>
    THEN create_table_from(s, canonicalized_goal, i + 1, <<u.sub>> \o answers, strands)
    ELSE LET c == canonicalize(Goal(apply_predicate(u.sub, clause.body[1].predicate)))
         IN push_strand(get_table_id(s, c.goal), c, clause, u.sub,
                        canonicalized_goal, i, answers, strands)

\* create_table, one iteration on a clause whose head unifies with the goal
\* under u: a fact pushes the substitution into answers, a rule a strand
\* whose first subgoal's table is fetched or created on the spot
push_clause(s, clause, u, canonicalized_goal, i, answers, strands) ==
    IF clause.body = <<>>
    THEN create_table_from(s, canonicalized_goal, i + 1, Append(answers, u.sub), strands)
    ELSE LET c == canonicalize(Goal(apply_predicate(u.sub, clause.body[1].predicate)))
         IN push_strand(get_table_id(s, c.goal), c, clause, u.sub,
                        canonicalized_goal, i, answers, strands)

\* create_table that takes every clause of the predicate name, whether or
\* not its head unifies with the goal
try_clause_ignores_unification(s, clause, canonicalized_goal, i, answers, strands) ==
    push_clause(s, clause,
        unify_predicate(EmptySubstitution, canonicalized_goal.predicate, clause.head),
        canonicalized_goal, i, answers, strands)

\* create_table, one iteration: the clause renamed apart from the goal
try_clause(s, clause, canonicalized_goal, i, answers, strands) ==
    LET u == unify_predicate(EmptySubstitution, canonicalized_goal.predicate, clause.head)
    IN IF ~u.ok
       THEN create_table_from(RenamedApart(s, canonicalized_goal, clause),
                              canonicalized_goal, i + 1, answers, strands)
       ELSE push_clause(RenamedApart(s, canonicalized_goal, clause), clause, u,
                        canonicalized_goal, i, answers, strands)

\* The loop of create_table over the clauses of the goal's predicate name
create_table_from(s, canonicalized_goal, i, answers, strands) ==
    LET clauses == get_clauses(s.knowledge_base, canonicalized_goal.predicate.name)
        max_inference_variable_index == max_variable_index(canonicalized_goal)
    IN IF s.fault # "none" THEN [s |-> s, table |-> <<>>]
       ELSE IF i > Len(clauses)
       THEN [s |-> s,
             table |-> [work_list |-> strands,
                        answers |-> answers,
                        canonicalized_goal |-> canonicalized_goal,
                        max_inference_variable_index |-> max_inference_variable_index]]
       ELSE try_clause(s,
                canonicalize_with_counter(clauses[i],
                    IF max_inference_variable_index = NoIndex THEN 0
                    ELSE max_inference_variable_index + 1),
                canonicalized_goal, i, answers, strands)

create_table(s, canonicalized_goal) ==
    create_table_from(s, canonicalized_goal, 1, <<>>, <<>>)

\* self.tables.tables.insert_with_id(id, new_table).unwrap(), where c is
\* what create_table returned and s the Solver get_table_id was called on
insert_with_id(s, id, c) ==
    IF c.s.fault # "none" THEN [s |-> c.s, id |-> id]
    ELSE IF id \in DOMAIN c.s.tables THEN [s |-> Panic(c.s), id |-> id]
    ELSE [s |-> [c.s EXCEPT !.tables = (id :> c.table) @@ @, !.depth = s.depth],
          id |-> id]

\* Solver::get_table_id without the lookup in table_ids_by_goal: every call
\* creates a table
get_table_id_always_creates(s, canonicalized_goal) ==
    IF s.fault # "none" THEN [s |-> s, id |-> 0]
    ELSE IF s.depth >= MaxCreateDepth
    THEN [s |-> Diverge(s), id |-> 0]
    ELSE insert_with_id(s, Cardinality(DOMAIN s.table_ids_by_goal),
             create_table(
                 [s EXCEPT !.table_ids_by_goal =
                               (canonicalized_goal :> Cardinality(DOMAIN @)) @@ @,
                           !.depth = @ + 1],
                 canonicalized_goal))

\* Solver::get_table_id that takes the number of tables in the arena as the
\* new id
get_table_id_numbers_by_arena(s, canonicalized_goal) ==
    IF s.fault # "none" THEN [s |-> s, id |-> 0]
    ELSE IF canonicalized_goal \in DOMAIN s.table_ids_by_goal
    THEN [s |-> s, id |-> s.table_ids_by_goal[canonicalized_goal]]
    ELSE IF s.depth >= MaxCreateDepth
    THEN [s |-> Diverge(s), id |-> 0]
    ELSE insert_with_id(s, Cardinality(DOMAIN s.tables),
             create_table(
                 [s EXCEPT !.table_ids_by_goal =
                               (canonicalized_goal :> Cardinality(DOMAIN s.tables)) @@ @,
                           !.depth = @ + 1],
                 canonicalized_goal))

\* Solver::get_table_id: the id is registered under the goal before the
\* table is built, and the table enters the arena after it.
get_table_id(s, canonicalized_goal) ==
    IF s.fault # "none" THEN [s |-> s, id |-> 0]
    ELSE IF canonicalized_goal \in DOMAIN s.table_ids_by_goal
    THEN [s |-> s, id |-> s.table_ids_by_goal[canonicalized_goal]]
    ELSE IF s.depth >= MaxCreateDepth
    THEN [s |-> Diverge(s), id |-> 0]
    ELSE insert_with_id(s, Cardinality(DOMAIN s.table_ids_by_goal),
             create_table(
                 [s EXCEPT !.table_ids_by_goal =
                               (canonicalized_goal :> Cardinality(DOMAIN @)) @@ @,
                           !.depth = @ + 1],
                 canonicalized_goal))

\* ----------------------------------------------------------- state machine
Fault == Result("Fault")

WorkListAppend(s, table_id, strands) ==
    [s EXCEPT !.tables[table_id].work_list = @ \o strands]

RECURSIVE clear_strands_after_cycle(_, _, _)

\* clear_strands_after_cycle, the rest of the loop over the strands once the
\* first strand's table has been cleared (cleared is the Solver after that)
clear_remaining_strands(cleared, table_id, strands) ==
    IF Tail(strands) = <<>> THEN cleared
    ELSE clear_strands_after_cycle(cleared, table_id, Tail(strands))

\* clear_strands_after_cycle that takes the work-list of the table of every
\* strand's selected subgoal and does not go on from there
clear_strands_after_cycle_one_level(s, table_id, strands) ==
    IF s.fault # "none" THEN s
    ELSE IF s.tables[table_id].work_list # <<>> THEN Panic(s)
    ELSE IF strands = <<>> THEN s
    ELSE clear_remaining_strands(
             [s EXCEPT !.tables[Head(strands).selected_subgoal_state.table_id]
                            .work_list = <<>>],
             table_id, strands)

\* clear_strands_after_cycle that empties the work-list of every table
clear_strands_after_cycle_clears_every_table(s, table_id, strands) ==
    IF s.fault # "none" THEN s
    ELSE IF s.tables[table_id].work_list # <<>> THEN Panic(s)
    ELSE [s EXCEPT !.tables = [t \in DOMAIN s.tables |->
                                  [s.tables[t] EXCEPT !.work_list = <<>>]]]

\* Solver::clear_strands_after_cycle: for every strand, take the work-list of
\* the table of its selected subgoal and clear on from there.
clear_strands_after_cycle(s, table_id, strands) ==
    IF s.fault # "none" THEN s
    \* assert!(work_list.is_empty())
    ELSE IF s.tables[table_id].work_list # <<>> THEN Panic(s)
    ELSE IF strands = <<>> THEN s
    ELSE LET selected_strand_table_id == Head(strands).selected_subgoal_state.table_id
         IN clear_remaining_strands(
                clear_strands_after_cycle(
                    [s EXCEPT !.tables[selected_strand_table_id].work_list = <<>>],
                    selected_strand_table_id,
                    s.tables[selected_strand_table_id].work_list),
                table_id, strands)

\* the tables the strands have selected
StrandTables(strands) ==
    {strands[i].selected_subgoal_state.table_id : i \in DOMAIN strands}

\* the tables reached from the frontier through the selected subgoals of the
\* strands in the work-lists
RECURSIVE Reachable(_, _, _)
Reachable(tables, frontier, seen) ==
    IF frontier \subseteq seen THEN seen
    ELSE Reachable(tables,
             UNION {StrandTables(tables[t].work_list) : t \in frontier \ seen},
             seen \cup frontier)

\* the strand waits for an answer its selected subgoal's table does not have
IsWaiting(tables, strand) ==
    strand.selected_subgoal_state.answer_index
        = Len(tables[strand.selected_subgoal_state.table_id].answers)

\* the strand, dropped by a cyclic call on the table at position of the
\* stack, waits for an answer of a table that is left with an empty
\* work-list and is not in progress further down the stack
IsDead(s, exit, position, strand) ==
    LET awaited == strand.selected_subgoal_state.table_id
    IN /\ IsWaiting(s.tables, strand)
       /\ exit.tables[awaited].work_list = <<>>
       /\ is_active(s.stack, awaited) \in {NoIndex, position}

\* Solver::cyclic returns r: s is the Solver it was called on and exit the
\* Solver it leaves behind; what the call did is added to the observations
Classified(s, exit, ordering, current_table, cylic_strands, r) ==
    LET emptied == {t \in DOMAIN s.tables :
                        /\ s.tables[t].work_list # <<>>
                        /\ exit.tables[t].work_list = <<>>}
        position == is_active(s.stack, current_table)
        numbers == {o.dfn : o \in {x \in s.observed.delayed : x.level = position + 1}}
    IN [s |-> [exit EXCEPT !.observed.cyclic = @ \cup
                  {[ordering |-> ordering,
                    returned |-> r.kind,
                    minimum |-> r.kind = "PositiveCyclicDependency" =>
                                    numbers # {} /\ r.dfn = Min(numbers),
                    several |-> r.kind = "PositiveCyclicDependency"
                                    /\ Cardinality(numbers) >= 2,
                    below |-> r.kind = "PositiveCyclicDependency" =>
                                  \E i \in 1..position :
                                      s.stack.stack[i].depth_first_number = r.dfn,
                    on_top |-> position = Len(s.stack.stack) - 1,
                    reachable_emptied |->
                        \A t \in Reachable(s.tables, StrandTables(cylic_strands),
                                           {current_table}) :
                            exit.tables[t].work_list = <<>>,
                    emptied |-> Cardinality(emptied),
                    cycle |-> \E t \in emptied :
                                  t \in Reachable(s.tables,
                                                  StrandTables(s.tables[t].work_list), {}),
                    all_dead |->
                        /\ \A i \in DOMAIN cylic_strands :
                               IsDead(s, exit, position, cylic_strands[i])
                        /\ \A t \in emptied : \A i \in DOMAIN s.tables[t].work_list :
                               IsDead(s, exit, position, s.tables[t].work_list[i]),
                    below_emptied |->
                        \E t \in emptied :
                            /\ is_active(s.stack, t) # NoIndex
                            /\ is_active(s.stack, t) < position,
                    outside_emptied |->
                        \E t \in emptied :
                            current_table \notin
                                Reachable(s.tables, StrandTables(s.tables[t].work_list),
                                          {})]}],
        r |-> r]

\* Solver::cyclic that, on the minimum of the component, clears the strands
\* and hands the cycle on as on the Greater branch
no_more_solutions_reports_cycle(s, cleared, current_table, cylic_strands) ==
    IF cleared.fault # "none" THEN [s |-> cleared, r |-> Fault]
    ELSE Classified(s, cleared, "Equal", current_table, cylic_strands,
             PositiveCyclicDependency(
                 s.stack.stack[is_active(s.stack, current_table) + 1].depth_first_number))

\* Solver::cyclic, Ordering::Equal once the strands are cleared
no_more_solutions(s, cleared, current_table, cylic_strands) ==
    IF cleared.fault # "none" THEN [s |-> cleared, r |-> Fault]
    ELSE Classified(s, cleared, "Equal", current_table, cylic_strands,
                    Result("NoMoreSolutions"))

\* Solver::cyclic that hands the cycle on under the number of its own table
cyclic_reports_own_number(s, cylic_strands, cyclic_counter, stack_index) ==
    LET current_table == s.stack.stack[stack_index + 1].table
        current_dfn == s.stack.stack[stack_index + 1].depth_first_number
    IN IF current_dfn < cyclic_counter
       THEN Classified(s, s, "Less", current_table, cylic_strands,
                       Result("NegativeCyclicDependency"))
       ELSE IF current_dfn = cyclic_counter
       THEN no_more_solutions(s, clear_strands_after_cycle(s, current_table, cylic_strands),
                              current_table, cylic_strands)
       ELSE Classified(s, WorkListAppend(s, current_table, cylic_strands), "Greater",
                       current_table, cylic_strands,
                       PositiveCyclicDependency(current_dfn))

\* Solver::cyclic
cyclic(s, cylic_strands, cyclic_counter, stack_index) ==
    LET current_table == s.stack.stack[stack_index + 1].table
        current_dfn == s.stack.stack[stack_index + 1].depth_first_number
    IN IF current_dfn < cyclic_counter
       THEN Classified(s, s, "Less", current_table, cylic_strands,
                       Result("NegativeCyclicDependency"))
       ELSE IF current_dfn = cyclic_counter
       THEN no_more_solutions(s, clear_strands_after_cycle(s, current_table, cylic_strands),
                              current_table, cylic_strands)
       ELSE Classified(s, WorkListAppend(s, current_table, cylic_strands), "Greater",
                       current_table, cylic_strands,
                       PositiveCyclicDependency(cyclic_counter))

RECURSIVE ensure_answer(_, _, _)
RECURSIVE pull_next_answer_loop(_, _, _, _, _)

\* try_pull_next_answer_from_strand that pushes the parent strand before the
\* forked one
fork_strand_parent_first(t, c, substitution, table_id, selected_strand, advanced) ==
    IF t.s.fault # "none"
    THEN [s |-> t.s, r |-> Fault, strand |-> advanced]
    ELSE [s |-> WorkListAppend(t.s, table_id,
                    << advanced,
                       [rest_subgoals |-> Tail(selected_strand.rest_subgoals),
                        selected_subgoal |-> c.goal,
                        substitution |-> substitution,
                        selected_subgoal_state |->
                            GoalState(t.id, 0, reverse_mapping(c.mapping))] >>),
          r |-> Result("Progress"),
          strand |-> advanced]

\* try_pull_next_answer_from_strand that pushes the forked strand to the
\* front of the work-list (push_front) and the parent to the back
fork_strand_child_in_front(t, c, substitution, table_id, selected_strand, advanced) ==
    IF t.s.fault # "none"
    THEN [s |-> t.s, r |-> Fault, strand |-> advanced]
    ELSE [s |-> [t.s EXCEPT !.tables[table_id].work_list =
                    << [rest_subgoals |-> Tail(selected_strand.rest_subgoals),
                        selected_subgoal |-> c.goal,
                        substitution |-> substitution,
                        selected_subgoal_state |->
                            GoalState(t.id, 0, reverse_mapping(c.mapping))] >>
                        \o @ \o << advanced >>],
          r |-> Result("Progress"),
          strand |-> advanced]

\* try_pull_next_answer_from_strand with subgoals left: the forked strand
\* selects the next subgoal, whose table t is what get_table_id returned
fork_strand(t, c, substitution, table_id, selected_strand, advanced) ==
    IF t.s.fault # "none"
    THEN [s |-> t.s, r |-> Fault, strand |-> advanced]
    ELSE [s |-> WorkListAppend(t.s, table_id,
                    << [rest_subgoals |-> Tail(selected_strand.rest_subgoals),
                        selected_subgoal |-> c.goal,
                        substitution |-> substitution,
                        selected_subgoal_state |->
                            GoalState(t.id, 0, reverse_mapping(c.mapping))],
                       advanced >>),
          r |-> Result("Progress"),
          strand |-> advanced]

\* try_pull_next_answer_from_strand that inserts the strand's substitution
\* as the answer, without the answer it consumed
extend_strand_forgets_answer(s, substitution, table_id, selected_strand, advanced) ==
    IF selected_strand.rest_subgoals = <<>>
    THEN LET ins == insert_answer(s.tables[table_id], selected_strand.substitution)
         IN [s |-> [s EXCEPT !.tables[table_id] =
                        [ins.table EXCEPT !.work_list = Append(@, advanced)]],
             r |-> IF ins.added THEN Result("NewAnswer") ELSE Result("Progress"),
             strand |-> advanced]
    ELSE LET c == canonicalize(Goal(apply_predicate(substitution,
                      Head(selected_strand.rest_subgoals).predicate)))
         IN fork_strand(get_table_id(s, c.goal), c, substitution, table_id,
                        selected_strand, advanced)

\* try_pull_next_answer_from_strand once the answer is available: s is the
\* Solver after ensure_answer, substitution the strand's substitution
\* composed with the pulled answer, advanced the strand moved to the next
\* answer
extend_strand(s, substitution, table_id, selected_strand, advanced) ==
    IF selected_strand.rest_subgoals = <<>>
    THEN LET ins == insert_answer(s.tables[table_id], substitution)
         IN [s |-> [s EXCEPT !.tables[table_id] =
                        [ins.table EXCEPT !.work_list = Append(@, advanced)]],
             r |-> IF ins.added THEN Result("NewAnswer") ELSE Result("Progress"),
             strand |-> advanced]
    ELSE LET c == canonicalize(Goal(apply_predicate(substitution,
                      Head(selected_strand.rest_subgoals).predicate)))
         IN fork_strand(get_table_id(s, c.goal), c, substitution, table_id,
                        selected_strand, advanced)

\* try_pull_next_answer_from_strand returns early: ensure_answer, which
\* returned e, found no answer. With a positive cycle the strand goes back
\* to the caller, which delays it.
handed_back(e, selected_strand) ==
    [s |-> IF e.r.kind = "PositiveCyclicDependency"
           THEN [e.s EXCEPT !.observed.delayed = @ \cup
                     {[level |-> Len(e.s.stack.stack), dfn |-> e.r.dfn,
                       strand |-> selected_strand]}]
           ELSE e.s,
     r |-> IF e.r.kind = "NoMoreSolutions" THEN Result("Stale") ELSE e.r,
     strand |-> selected_strand]

\* try_pull_next_answer_from_strand that moves the strand two answers on
\* after it consumed one
pull_from_strand_skips_an_answer(e, table_id, selected_strand) ==
    LET state == selected_strand.selected_subgoal_state
    IN IF e.r.kind # "AnswerAvailable"
       THEN handed_back(e, selected_strand)
       ELSE extend_strand(e.s,
                compose(selected_strand.substitution,
                        uncanonicalize_substitution(
                            e.s.tables[state.table_id].answers[state.answer_index + 1],
                            state.canonical_mapping, e.s.hash),
                        e.s.hash),
                table_id, selected_strand,
                [selected_strand EXCEPT !.selected_subgoal_state.answer_index = @ + 2])

\* try_pull_next_answer_from_strand that pushes a stale strand back onto the
\* work-list of its table
pull_from_strand_keeps_stale(e, table_id, selected_strand) ==
    LET state == selected_strand.selected_subgoal_state
    IN IF e.r.kind = "NoMoreSolutions"
       THEN [s |-> WorkListAppend(e.s, table_id, <<selected_strand>>),
             r |-> Result("Stale"),
             strand |-> selected_strand]
       ELSE IF e.r.kind # "AnswerAvailable"
       THEN handed_back(e, selected_strand)
       ELSE extend_strand(e.s,
                compose(selected_strand.substitution,
                        uncanonicalize_substitution(
                            e.s.tables[state.table_id].answers[state.answer_index + 1],
                            state.canonical_mapping, e.s.hash),
                        e.s.hash),
                table_id, selected_strand,
                [selected_strand EXCEPT !.selected_subgoal_state.answer_index = @ + 1])

\* try_pull_next_answer_from_strand after ensure_answer returned e
pull_from_strand(e, table_id, selected_strand) ==
    LET state == selected_strand.selected_subgoal_state
    IN IF e.r.kind # "AnswerAvailable"
       THEN handed_back(e, selected_strand)
       ELSE extend_strand(e.s,
                compose(selected_strand.substitution,
                        uncanonicalize_substitution(
                            e.s.tables[state.table_id].answers[state.answer_index + 1],
                            state.canonical_mapping, e.s.hash),
                        e.s.hash),
                table_id, selected_strand,
                [selected_strand EXCEPT !.selected_subgoal_state.answer_index = @ + 1])

\* the strands of the sequence
Strands(work_list) == {work_list[i] : i \in DOMAIN work_list}

\* the answer as Table::insert_answer stores it in the table
Projected(table, answer) ==
    IF table.max_inference_variable_index = NoIndex THEN EmptySubstitution
    ELSE [k \in {v \in DOMAIN answer : v <= table.max_inference_variable_index}
              |-> answer[k]]

\* try_pull_next_answer_from_strand returns p: s is the Solver it was called
\* on, with selected_strand popped from the work-list of table_id; what the
\* step did is added to the observations
Stepped(s, table_id, selected_strand, p) ==
    LET state == selected_strand.selected_subgoal_state
        ensured == p.s.observed.last
        remaining == s.tables[table_id].work_list
        exit_list == p.s.tables[table_id].work_list
        before == s.tables[table_id].answers
        after == p.s.tables[table_id].answers
        forks == ensured = "AnswerAvailable" /\ selected_strand.rest_subgoals # <<>>
        last == ensured = "AnswerAvailable" /\ selected_strand.rest_subgoals = <<>>
        composed == compose(selected_strand.substitution,
                            uncanonicalize_substitution(
                                p.s.tables[state.table_id].answers[state.answer_index + 1],
                                state.canonical_mapping, p.s.hash),
                            p.s.hash)
        parent == [selected_strand EXCEPT !.selected_subgoal_state.answer_index = @ + 1]
        next == canonicalize(Goal(apply_predicate(composed,
                    Head(selected_strand.rest_subgoals).predicate)))
        child == [rest_subgoals |-> Tail(selected_strand.rest_subgoals),
                  selected_subgoal |-> next.goal,
                  substitution |-> composed,
                  selected_subgoal_state |->
                      GoalState(p.s.table_ids_by_goal[next.goal], 0,
                                reverse_mapping(next.mapping))]
    IN IF p.r.kind = "Fault" THEN p
       ELSE [p EXCEPT
                !.s.observed.forks =
                    {f \in (@ \cup IF forks
                                   THEN {[table |-> table_id, child |-> child,
                                          parent |-> parent]}
                                   ELSE {}) :
                        /\ f.table # table_id \/ selected_strand \notin {f.child, f.parent}
                        /\ {f.child, f.parent} \subseteq Strands(p.s.tables[f.table].work_list)},
                !.s.observed.strand = @ \cup
                    {[ensured |-> ensured,
                      reported |-> p.r.kind,
                      forked |-> forks,
                      last |-> last,
                      waiting |-> remaining # <<>>,
                      enqueued |->
                          exit_list = remaining \o (IF forks THEN <<child, parent>>
                                                    ELSE IF last THEN <<parent>>
                                                    ELSE <<>>),
                      child_next |-> forks => Head(exit_list) = child,
                      first_waiting_next |->
                          remaining # <<>> =>
                              exit_list # <<>> /\ Head(exit_list) = Head(remaining),
                      dropped |->
                          ensured = "NoMoreSolutions" =>
                              \A u \in DOMAIN p.s.tables :
                                  \/ selected_strand \notin Strands(p.s.tables[u].work_list)
                                  \/ /\ u \in DOMAIN s.tables
                                     /\ selected_strand \in Strands(s.tables[u].work_list),
                      parent_first |->
                          \E f \in s.observed.forks :
                              /\ f.table = table_id
                              /\ f.parent = selected_strand
                              /\ f.child # selected_strand,
                      inserted |->
                          last =>
                              IF \E i \in DOMAIN before :
                                     before[i] = Projected(s.tables[table_id], composed)
                              THEN after = before /\ p.r.kind = "Progress"
                              ELSE /\ after = Append(before,
                                                Projected(s.tables[table_id], composed))
                                   /\ p.r.kind = "NewAnswer",
                      grew |-> Len(after) - Len(before),
                      answers_kept |-> after = before]}]

\* Solver::try_pull_next_answer_from_strand; strand is the strand handed
\* back with an error
try_pull_next_answer_from_strand(s, table_id, selected_strand) ==
    Stepped(s, table_id, selected_strand,
        pull_from_strand(
            ensure_answer(s, selected_strand.selected_subgoal_state.table_id,
                          selected_strand.selected_subgoal_state.answer_index),
            table_id, selected_strand))

\* pull_next_answer that reports NoMoreSolutions as soon as a strand made
\* progress without a new answer, instead of going on with the work-list
match_strand_result_stops_on_progress(p, table_id, stack_index, cyclic_counter, delayed_strands) ==
    IF p.r.kind = "Fault" THEN [s |-> p.s, r |-> Fault]
    ELSE IF p.r.kind = "NewAnswer"
    THEN [s |-> WorkListAppend(p.s, table_id, delayed_strands), r |-> Result("Ok")]
    ELSE IF p.r.kind \in {"Stale", "Progress"}
    THEN [s |-> WorkListAppend(p.s, table_id, delayed_strands),
          r |-> Result("NoMoreSolutions")]
    ELSE IF p.r.kind = "NegativeCyclicDependency"
    THEN [s |-> p.s, r |-> Result("NegativeCyclicDependency")]
    ELSE pull_next_answer_loop(p.s, table_id, stack_index,
             IF p.r.dfn < cyclic_counter THEN p.r.dfn ELSE cyclic_counter,
             Append(delayed_strands, p.strand))

\* pull_next_answer that returns Ok without putting the delayed strands
\* back into the work-list
match_strand_result_drops_delayed(p, table_id, stack_index, cyclic_counter, delayed_strands) ==
    IF p.r.kind = "Fault" THEN [s |-> p.s, r |-> Fault]
    ELSE IF p.r.kind = "NewAnswer"
    THEN [s |-> p.s, r |-> Result("Ok")]
    ELSE IF p.r.kind \in {"Stale", "Progress"}
    THEN pull_next_answer_loop(p.s, table_id, stack_index, cyclic_counter,
                               delayed_strands)
    ELSE IF p.r.kind = "NegativeCyclicDependency"
    THEN [s |-> p.s, r |-> Result("NegativeCyclicDependency")]
    ELSE pull_next_answer_loop(p.s, table_id, stack_index,
             IF p.r.dfn < cyclic_counter THEN p.r.dfn ELSE cyclic_counter,
             Append(delayed_strands, p.strand))

\* pull_next_answer that keeps the larger of the cyclic counters
\* (counter.max(cyclic_counter))
match_strand_result_keeps_larger_counter(p, table_id, stack_index, cyclic_counter, delayed_strands) ==
    IF p.r.kind = "Fault" THEN [s |-> p.s, r |-> Fault]
    ELSE IF p.r.kind = "NewAnswer"
    THEN [s |-> WorkListAppend(p.s, table_id, delayed_strands), r |-> Result("Ok")]
    ELSE IF p.r.kind \in {"Stale", "Progress"}
    THEN pull_next_answer_loop(p.s, table_id, stack_index, cyclic_counter,
                               delayed_strands)
    ELSE IF p.r.kind = "NegativeCyclicDependency"
    THEN [s |-> p.s, r |-> Result("NegativeCyclicDependency")]
    ELSE pull_next_answer_loop(p.s, table_id, stack_index,
             IF p.r.dfn > cyclic_counter THEN p.r.dfn ELSE cyclic_counter,
             Append(delayed_strands, p.strand))

\* Solver::pull_next_answer, the match on what the strand returned
match_strand_result(p, table_id, stack_index, cyclic_counter, delayed_strands) ==
    IF p.r.kind = "Fault" THEN [s |-> p.s, r |-> Fault]
    ELSE IF p.r.kind = "NewAnswer"
    THEN [s |-> WorkListAppend(p.s, table_id, delayed_strands), r |-> Result("Ok")]
    ELSE IF p.r.kind \in {"Stale", "Progress"}
    THEN pull_next_answer_loop(p.s, table_id, stack_index, cyclic_counter,
                               delayed_strands)
    ELSE IF p.r.kind = "NegativeCyclicDependency"
    THEN [s |-> p.s, r |-> Result("NegativeCyclicDependency")]
    ELSE \* PositiveCyclicDependency(counter)
         pull_next_answer_loop(p.s, table_id, stack_index,
             IF p.r.dfn < cyclic_counter THEN p.r.dfn ELSE cyclic_counter,
             Append(delayed_strands, p.strand))

\* The loop of Solver::pull_next_answer
pull_next_answer_loop(s, table_id, stack_index, cyclic_counter, delayed_strands) ==
    IF s.tables[table_id].work_list = <<>>
    THEN IF delayed_strands = <<>>
         THEN [s |-> s, r |-> Result("NoMoreSolutions")]
         ELSE cyclic(s, delayed_strands, cyclic_counter, stack_index)
    ELSE match_strand_result(
             try_pull_next_answer_from_strand(
                 [s EXCEPT !.tables[table_id].work_list = Tail(@)],
                 table_id, Head(s.tables[table_id].work_list)),
             table_id, stack_index, cyclic_counter, delayed_strands)

\* Solver::pull_next_answer
pull_next_answer(s, table_id, stack_index) ==
    pull_next_answer_loop(s, table_id, stack_index, DFN_MAX, <<>>)

\* ensure_answer returns r: entry is the Solver it was called on, exit the
\* Solver it leaves behind; what the call did is added to the observations
Ensured(entry, exit, table_id, answer_index, r) ==
    LET answers == Len(entry.tables[table_id].answers)
        position == is_active(entry.stack, table_id)
    IN [s |-> [exit EXCEPT
                  !.observed.delayed = {o \in @ : o.level <= Len(exit.stack.stack)},
                  !.observed.last = r.kind,
                  !.observed.ensure_answer = @ \cup
                  {[memoized |-> answer_index < answers,
                    ahead |-> answer_index > answers,
                    active |-> position # NoIndex,
                    below_top |-> position # NoIndex
                                      /\ position < Len(entry.stack.stack) - 1,
                    returned |-> r.kind,
                    dfn_of_active |->
                        /\ position # NoIndex
                        /\ r.dfn = entry.stack.stack[position + 1].depth_first_number,
                    dfn_on_stack |->
                        r.kind = "PositiveCyclicDependency" =>
                            \E i \in DOMAIN exit.stack.stack :
                                exit.stack.stack[i].depth_first_number = r.dfn,
                    delayed_kept |->
                        r.kind \in {"AnswerAvailable", "PositiveCyclicDependency"} =>
                            \A o \in exit.observed.delayed :
                                o.level = Len(entry.stack.stack) + 1 =>
                                    \E i \in DOMAIN exit.tables[table_id].work_list :
                                        exit.tables[table_id].work_list[i] = o.strand,
                    had_delayed |->
                        /\ r.kind \in {"AnswerAvailable", "PositiveCyclicDependency"}
                        /\ \E o \in exit.observed.delayed :
                               o.level = Len(entry.stack.stack) + 1,
                    new_answer |->
                        (r.kind = "AnswerAvailable" /\ answer_index >= answers) =>
                            /\ answer_index = answers
                            /\ Len(exit.tables[table_id].answers) = answers + 1,
                    answers_appended |->
                        /\ Len(exit.tables[table_id].answers) >= answers
                        /\ SubSeq(exit.tables[table_id].answers, 1, answers)
                               = entry.tables[table_id].answers,
                    grew |-> Len(exit.tables[table_id].answers) - answers,
                    boundary |-> entry.stack.stack = <<>>,
                    exhausted |-> r.kind = "NoMoreSolutions" =>
                                      exit.tables[table_id].work_list = <<>>,
                    entries_kept |-> exit.stack.stack = entry.stack.stack,
                    unchanged |-> /\ exit.tables = entry.tables
                                  /\ exit.table_ids_by_goal = entry.table_ids_by_goal
                                  /\ exit.stack = entry.stack]}],
        r |-> r]

\* ensure_answer that pops the stack only when pull_next_answer returned Ok
\* (as with pull_next_answer(..)? in front of the pop)
pop_and_map_keeps_entry_on_error(s, table_id, answer_index, p) ==
    IF p.r.kind = "Fault" THEN p
    ELSE IF p.r.kind = "Ok"
    THEN Ensured(s, [p.s EXCEPT !.stack = pop(@)], table_id, answer_index,
                 Result("AnswerAvailable"))
    ELSE Ensured(s, p.s, table_id, answer_index, p.r)

\* Solver::ensure_answer, after pull_next_answer returned p: self.stack.pop()
\* and result.map(|()| EnsureAnswer::AnswerAvailable); s is the Solver
\* ensure_answer was called on
pop_and_map(s, table_id, answer_index, p) ==
    IF p.r.kind = "Fault" THEN p
    ELSE Ensured(s, [p.s EXCEPT !.stack = pop(@)], table_id, answer_index,
                 IF p.r.kind = "Ok" THEN Result("AnswerAvailable") ELSE p.r)

\* Solver::ensure_answer, let stack_index = self.stack.push(table_id): u is
\* what Stack::push returned
pushed(s, table_id, u) ==
    LET number == u.stack.stack[Len(u.stack.stack)].depth_first_number
    IN [s EXCEPT !.stack = u.stack,
                 !.fuel = @ - 1,
                 !.observed.highest = IF number > @ THEN number ELSE @,
                 !.observed.push = @ \cup
                     {[depth |-> Len(s.stack.stack),
                       after_pop |-> s.stack.counter > Len(s.stack.stack),
                       duplicate |-> is_active(s.stack, table_id) # NoIndex,
                       above_stack |->
                           \A i \in DOMAIN s.stack.stack :
                               s.stack.stack[i].depth_first_number < number,
                       above_assigned |-> number > s.observed.highest,
                       found |-> is_active(u.stack, table_id) = u.index]}]

\* ensure_answer that looks for the table on the stack before it looks for
\* a memoized answer
ensure_answer_checks_cycle_first(s, table_id, answer_index) ==
    IF s.fault # "none" THEN [s |-> s, r |-> Fault]
    ELSE IF s.fuel = 0 THEN [s |-> Diverge(s), r |-> Fault]
    ELSE IF table_id \notin DOMAIN s.tables THEN [s |-> Panic(s), r |-> Fault]
    ELSE IF is_active(s.stack, table_id) # NoIndex
    THEN Ensured(s, s, table_id, answer_index,
             PositiveCyclicDependency(
                 s.stack.stack[is_active(s.stack, table_id) + 1].depth_first_number))
    ELSE IF answer_index < Len(s.tables[table_id].answers)
    THEN Ensured(s, s, table_id, answer_index, Result("AnswerAvailable"))
    ELSE IF Len(s.tables[table_id].answers) # answer_index
    THEN Ensured(s, Panic(s), table_id, answer_index, Fault)
    ELSE pop_and_map(s, table_id, answer_index,
             pull_next_answer(pushed(s, table_id, push(s.stack, table_id)),
                              table_id, push(s.stack, table_id).index))

\* ensure_answer that reports a cycle with the depth-first number of the
\* entry on top of the stack
ensure_answer_reports_top_of_stack(s, table_id, answer_index) ==
    IF s.fault # "none" THEN [s |-> s, r |-> Fault]
    ELSE IF s.fuel = 0 THEN [s |-> Diverge(s), r |-> Fault]
    ELSE IF table_id \notin DOMAIN s.tables THEN [s |-> Panic(s), r |-> Fault]
    ELSE IF answer_index < Len(s.tables[table_id].answers)
    THEN Ensured(s, s, table_id, answer_index, Result("AnswerAvailable"))
    ELSE IF Len(s.tables[table_id].answers) # answer_index
    THEN Ensured(s, Panic(s), table_id, answer_index, Fault)
    ELSE IF is_active(s.stack, table_id) # NoIndex
    THEN Ensured(s, s, table_id, answer_index,
             PositiveCyclicDependency(
                 s.stack.stack[Len(s.stack.stack)].depth_first_number))
    ELSE pop_and_map(s, table_id, answer_index,
             pull_next_answer(pushed(s, table_id, push(s.stack, table_id)),
                              table_id, push(s.stack, table_id).index))

\* Solver::ensure_answer
ensure_answer(s, table_id, answer_index) ==
    IF s.fault # "none" THEN [s |-> s, r |-> Fault]
    ELSE IF s.fuel = 0 THEN [s |-> Diverge(s), r |-> Fault]
    \* self.tables.tables.get(table_id).unwrap()
    ELSE IF table_id \notin DOMAIN s.tables THEN [s |-> Panic(s), r |-> Fault]
    ELSE IF answer_index < Len(s.tables[table_id].answers)
    THEN Ensured(s, s, table_id, answer_index, Result("AnswerAvailable"))
    \* assert!(table.answers.len() == answer_index)
    ELSE IF Len(s.tables[table_id].answers) # answer_index
    THEN Ensured(s, Panic(s), table_id, answer_index, Fault)
    ELSE IF is_active(s.stack, table_id) # NoIndex
    THEN Ensured(s, s, table_id, answer_index,
             PositiveCyclicDependency(
                 s.stack.stack[is_active(s.stack, table_id) + 1].depth_first_number))
    ELSE pop_and_map(s, table_id, answer_index,
             pull_next_answer(pushed(s, table_id, push(s.stack, table_id)),
                              table_id, push(s.stack, table_id).index))

\* ------------------------------------------------------------ goal surface
\* create_goal_state, once get_table_id returned t for the canonical goal
new_goal_state(t, c) ==
    [s |-> t.s, goal_state |-> GoalState(t.id, 0, reverse_mapping(c.mapping))]

\* Solver::create_goal_state: canonicalize the user's goal, fetch or create
\* its table
create_goal_state(s, goal) ==
    LET c == canonicalize(goal)
    IN new_goal_state(get_table_id(s, c.goal), c)

\* pull_next_goal, once ensure_answer returned e: the answer at answer_index
\* in the user's variable space, or none for every error; ensured records
\* what ensure_answer returned
next_solution(e, goal_state) ==
    IF e.r.kind = "AnswerAvailable"
    THEN [s |-> e.s,
          goal_state |-> [goal_state EXCEPT !.answer_index = @ + 1],
          result |-> Some(uncanonicalize_substitution(
                         e.s.tables[goal_state.table_id]
                             .answers[goal_state.answer_index + 1],
                         goal_state.canonical_mapping, e.s.hash)),
          ensured |-> e.r.kind]
    ELSE [s |-> e.s, goal_state |-> goal_state, result |-> None,
          ensured |-> e.r.kind]

\* Solver::pull_next_goal: the next answer of the goal's table in the user's
\* variable space, or none; every error of ensure_answer surfaces as none
pull_next_goal(s, goal_state) ==
    next_solution(ensure_answer(s, goal_state.table_id, goal_state.answer_index),
                  goal_state)

\* ---------------------------------------------------------------- programs
a == Atom("a")
b == Atom("b")
c == Atom("c")
d == Atom("d")
e == Atom("e")
V0 == Variable(0)
V1 == Variable(1)
V2 == Variable(2)
Fact(n, as) == Clause(Predicate(n, as), <<>>)
Rule(n, as, body) == Clause(Predicate(n, as), body)
G(n, as) == Goal(Predicate(n, as))

\* The knowledge bases and queries the model is run on: the clauses in the
\* order they are added, and the goals a caller may submit.
Programs == <<
    \* 1: transitive closure over the chain a-b-c-d
    [clauses |-> << Fact("over", <<a, b>>), Fact("over", <<b, c>>),
                    Fact("over", <<c, d>>),
                    Rule("over", <<V0, V1>>,
                         << G("over", <<V0, V2>>), G("over", <<V2, V1>>) >>) >>,
     queries |-> { G("over", <<a, V0>>), G("over", <<a, Variable(3)>>),
                   G("over", <<a, d>>), G("over", <<d, V0>>) }],
    \* 2: mutual recursion odd / even
    [clauses |-> << Fact("even", <<Atom("0")>>),
                    Fact("succ", <<Atom("0"), Atom("1")>>),
                    Fact("succ", <<Atom("1"), Atom("2")>>),
                    Fact("succ", <<Atom("2"), Atom("3")>>),
                    Fact("succ", <<Atom("3"), Atom("4")>>),
                    Rule("odd", <<V0>>,
                         << G("even", <<V1>>), G("succ", <<V1, V0>>) >>),
                    Rule("even", <<V0>>,
                         << G("odd", <<V1>>), G("succ", <<V1, V0>>) >>) >>,
     queries |-> { G("odd", <<V0>>), G("even", <<V0>>), G("even", <<Atom("2")>>) }],
    \* 3: a cyclic fact graph under two predicates
    [clauses |-> << Fact("depends", <<a, b>>), Fact("depends", <<b, c>>),
                    Fact("depends", <<c, a>>), Fact("depends", <<d, e>>),
                    Rule("indirect", <<V0, V1>>, << G("depends", <<V0, V1>>) >>),
                    Rule("indirect", <<V0, V1>>,
                         << G("depends", <<V0, V2>>), G("indirect", <<V2, V1>>) >>) >>,
     queries |-> { G("indirect", <<a, V0>>), G("indirect", <<d, V0>>),
                   G("indirect", <<b, a>>) }],
    \* 4: a fact added twice, and a goal proved by a fact and by a rule
    [clauses |-> << Fact("p", <<a>>), Fact("p", <<a>>), Fact("q", <<b>>),
                    Rule("q", <<b>>, << G("p", <<a>>) >>) >>,
     queries |-> { G("p", <<V0>>), G("p", <<V1>>), G("p", <<a>>), G("q", <<b>>),
                   G("p", <<b>>), G("s", <<V0>>),
                   G("p", <<Compound("f", <<V0>>)>>) }],
    \* 5: facts with variables
    [clauses |-> << Fact("r", <<c, V0>>), Fact("r", <<V0, a>>),
                    Rule("q", <<V0>>, << G("r", <<V0, b>>) >>),
                    Fact("p", <<V0>>),
                    Rule("t", <<V0, a>>, << G("p", <<a>>) >>) >>,
     queries |-> { G("q", <<V1>>), G("t", <<V0, a>>), G("r", <<c, V1>>),
                   G("r", <<c, b>>), G("p", <<a>>) }],
    \* 6: ground rule heads over a recursive predicate
    [clauses |-> << Rule("q", <<a>>, << G("p", <<V1>>), G("q", <<V1>>) >>),
                    Fact("p", <<b>>),
                    Rule("q", <<b>>,
                         << G("q", <<V0>>), G("p", <<a>>), G("q", <<V0>>) >>),
                    Fact("q", <<c>>),
                    Fact("p", <<a>>) >>,
     queries |-> { G("q", <<a>>), G("q", <<V0>>) }],
    \* 7: a compound term in a rule body, none in a head
    [clauses |-> << Rule("p", <<V0>>, << G("p", <<Compound("f", <<V0>>)>>) >>),
                    Fact("q", <<a>>) >>,
     queries |-> { G("p", <<a>>), G("q", <<V0>>) }],
    \* 8: a fact with two variables as the first subgoal of a rule, and a
    \* predicate defined by two facts
    [clauses |-> << Fact("r", <<V0, V1>>), Fact("s", <<b>>), Fact("s", <<a>>),
                    Rule("p", <<V0>>, << G("r", <<V1, V2>>), G("s", <<V1>>) >>) >>,
     queries |-> { G("p", <<V0>>), G("s", <<V0>>) }]
>>

RECURSIVE add_clauses(_, _, _)
add_clauses(knowledge_base, clauses, i) ==
    IF i > Len(clauses) THEN knowledge_base
    ELSE add_clauses(add_clause(knowledge_base, clauses[i]), clauses, i + 1)

\* ------------------------------------------------------------------ bounds
\* Goal states a caller creates on one Solver, and pulls it makes through one
\* goal state.
MaxGoalStates == 2
MaxPulls == 4

\* ------------------------------------------------------------------- state
VARIABLES
    program,            \* index into Programs of the knowledge base in use
    knowledge_base,     \* Solver.knowledge_base
    tables,             \* Tables.tables: the arena, id -> Table
    table_ids_by_goal,  \* Tables.table_ids_by_goal
    stack,              \* Solver.stack
    goal_states,        \* the caller's goal states with what each pull returned
    fault,              \* "none", or how a call failed to return a value
    call,               \* a call of a function of substitution.rs or
                        \* canonicalize.rs on its own: its arguments and what
                        \* it returned (NoCall while the Solver is run)
    observed,           \* what the calls inside the last call of the public
                        \* surface did, and the largest depth-first number
                        \* assigned so far
    added,              \* the clauses handed to add_clause, in order, while
                        \* a knowledge base is built
    arena               \* an Arena<T, Serial> used on its own

vars == <<program, knowledge_base, tables, table_ids_by_goal, stack, goal_states, fault,
          call, observed, added, arena>>

NoCall == [fn |-> "none", done |-> TRUE]

\* arena.rs: Arena { generator, items } with G = Serial(u64), as Arena::new
\* leaves it
NewArena == [generator |-> 0, items |-> [id \in {} |-> ""]]

\* The Solver as one call sees it; hash is the HashMap iteration order the
\* call observes, fuel the steps it may still take and depth the nesting of
\* create_table.
Solver(hash) ==
    [knowledge_base |-> knowledge_base, tables |-> tables,
     table_ids_by_goal |-> table_ids_by_goal, stack |-> stack,
     hash |-> hash, fuel |-> MaxSteps, depth |-> 0, fault |-> "none",
     observed |-> [NoObservations EXCEPT !.highest = observed.highest,
                                         !.forks = observed.forks]]

\* Solver::new on a knowledge base built by add_clause
NewSolver(kb, hash) ==
    [knowledge_base |-> kb, tables |-> [i \in {} |-> <<>>],
     table_ids_by_goal |-> [g \in {} |-> 0], stack |-> NewStack,
     hash |-> hash, fuel |-> MaxSteps, depth |-> 0, fault |-> "none",
     observed |-> NoObservations]

Init ==
    /\ program \in DOMAIN Programs
    /\ knowledge_base = add_clauses(EmptyKnowledgeBase, Programs[program].clauses, 1)
    /\ tables = [i \in {} |-> <<>>]
    /\ table_ids_by_goal = [g \in {} |-> 0]
    /\ stack = NewStack
    /\ goal_states = <<>>
    /\ fault = "none"
    /\ call = NoCall
    /\ observed = NoObservations
    /\ added = <<>>
    /\ arena = NewArena

Store(s) ==
    /\ tables' = s.tables
    /\ table_ids_by_goal' = s.table_ids_by_goal
    /\ stack' = s.stack
    /\ fault' = s.fault
    /\ observed' = s.observed
    /\ UNCHANGED <<program, knowledge_base, call, added, arena>>

\* the Solver and the caller's new goal state after create_goal_state returned r
StoreGoalState(goal, r) ==
    /\ Store(r.s)
    /\ goal_states' =
           IF r.s.fault # "none" THEN goal_states
           ELSE Append(goal_states,
                       [goal |-> goal, state |-> r.goal_state, pulled |-> <<>>])

\* The caller submits each goal of the program at most once; goals that differ
\* only in the names of their variables are different goals.
CreateGoalState(goal, hash) ==
    /\ fault = "none"
    /\ Len(goal_states) < MaxGoalStates
    /\ \A k \in DOMAIN goal_states : goal_states[k].goal # goal
    /\ StoreGoalState(goal, create_goal_state(Solver(hash), goal))

\* the Solver and the caller's goal state after pull_next_goal returned r
StorePulled(i, r) ==
    /\ Store(r.s)
    /\ goal_states' =
           IF r.s.fault # "none" THEN goal_states
           ELSE [goal_states EXCEPT
                    ![i].state = r.goal_state,
                    ![i].pulled = Append(@, [ok |-> r.result.ok, sub |-> r.result.sub,
                                             ensured |-> r.ensured])]

PullNextGoal(i, hash) ==
    /\ fault = "none"
    /\ Len(goal_states[i].pulled) < MaxPulls
    /\ StorePulled(i, pull_next_goal(Solver(hash), goal_states[i].state))

Next ==
    \/ \E goal \in Programs[program].queries, hash \in HashOrders :
           CreateGoalState(goal, hash)
    \/ \E i \in DOMAIN goal_states, hash \in HashOrders : PullNextGoal(i, hash)

Spec == Init /\ [][Next]_vars

\* ------------------------------------------- the functions on their own
\* The functions of substitution.rs and canonicalize.rs called on arguments
\* drawn from bounded sets of terms, outside any Solver: call holds the
\* arguments, and after the step the value returned.

\* variables are Variable(0) .. Variable(MaxVariable)
MaxVariable == 1

Variables == {Variable(i) : i \in 0..MaxVariable}
Atoms == {a, b}
Base == Atoms \cup Variables
\* the arguments of the binary compound terms and of the predicates
Args == Variables \cup {a} \cup {Compound("f", <<v>>) : v \in Variables}
Terms ==
    Base \cup {Compound("f", <<x>>) : x \in Base}
         \cup {Compound("f", <<x, a>>) : x \in Variables}
         \cup {Compound("g", <<x, y>>) : x \in Args, y \in Variables \cup {a}}

\* the terms a substitution of the bounded sets binds a variable to
Bindings == Base \cup {Compound("f", <<v>>) : v \in Variables}
Substitutions == UNION {[D -> Bindings] : D \in SUBSET (0..MaxVariable)}

\* no bound term contains a variable the substitution binds
IsIdempotent(sub) ==
    \A k \in DOMAIN sub : TermVars(sub[k]) \cap DOMAIN sub = {}

IdempotentSubstitutions == {sub \in Substitutions : IsIdempotent(sub)}

\* the substitutions a returned unifier is compared with: every variable
\* free, or bound to an atom, a variable, f(atom) or f(variable)
Unifiers ==
    UNION {[D -> Base \cup {Compound("f", <<x>>) : x \in Base}] :
               D \in SUBSET (0..MaxVariable)}

Predicates ==
    {Predicate(n, <<x>>) : n \in {"p", "q"}, x \in Args}
        \cup {Predicate("p", <<x, y>>) :
                  x \in Variables \cup {a, Compound("f", <<V0>>)},
                  y \in Variables \cup {a}}

UnifyTermsCalls(selves) ==
    {[fn |-> "unify_terms", done |-> FALSE, self |-> self, lhs |-> lhs, rhs |-> rhs,
      returned |-> None] :
        self \in selves, lhs \in Terms, rhs \in Terms}

UnifyPredicateCalls(selves) ==
    {[fn |-> "unify_predicate", done |-> FALSE, self |-> self, lhs |-> lhs, rhs |-> rhs,
      returned |-> None] :
        self \in selves, lhs \in Predicates, rhs \in Predicates}

ComposeCalls(selves) ==
    {[fn |-> "compose", done |-> FALSE, self |-> self, other |-> other, hash |-> hash,
      returned |-> EmptySubstitution] :
        self \in selves, other \in selves,
        hash \in HashOrders}

\* the values handed to canonicalize: their variables are not dense and not
\* in order of occurrence
SparseVariables == {Variable(3 * i) : i \in 0..MaxVariable}
SparseArgs ==
    SparseVariables \cup {a}
        \cup {Compound("f", <<v>>) : v \in SparseVariables}
        \cup {Compound("g", <<v, w>>) : v, w \in SparseVariables}

CanonicalizeCalls ==
    {[fn |-> "canonicalize", done |-> FALSE, goal |-> goal,
      returned |-> [goal |-> goal, mapping |-> EmptyMapping]] :
        goal \in {G("p", <<x>>) : x \in SparseArgs}
                     \cup {G("p", <<x, y>>) : x, y \in SparseArgs}}

CanonicalizeClauseCalls ==
    {[fn |-> "canonicalize_clause", done |-> FALSE, clause |-> clause,
      returned |-> clause] :
        clause \in {Fact("q", <<x>>) : x \in SparseArgs}
                       \cup {Rule("q", <<x>>, << G("r", <<y>>) >>) : x, y \in SparseArgs}
                       \cup {Rule("q", <<x>>, << G("r", <<y>>), G("s", <<z>>) >>) :
                                 x, y, z \in SparseArgs}}

CallsInit ==
    /\ program = 1
    /\ knowledge_base = EmptyKnowledgeBase
    /\ tables = [i \in {} |-> <<>>]
    /\ table_ids_by_goal = [g \in {} |-> 0]
    /\ stack = NewStack
    /\ goal_states = <<>>
    /\ fault = "none"
    /\ observed = NoObservations
    /\ added = <<>>
    /\ arena = NewArena
    /\ \/ call \in UnifyTermsCalls(IdempotentSubstitutions)
       \/ call \in UnifyPredicateCalls(IdempotentSubstitutions)
       \/ call \in ComposeCalls(IdempotentSubstitutions)
       \/ call \in CanonicalizeCalls
       \/ call \in CanonicalizeClauseCalls

Return(value) ==
    /\ call' = [call EXCEPT !.done = TRUE, !.returned = value]
    /\ UNCHANGED <<program, knowledge_base, tables, table_ids_by_goal, stack, goal_states,
                   fault, observed, added, arena>>

UnifyTerms ==
    /\ call.fn = "unify_terms" /\ ~call.done
    /\ Return(unify_terms(call.self, call.lhs, call.rhs))

UnifyPredicate ==
    /\ call.fn = "unify_predicate" /\ ~call.done
    /\ Return(unify_predicate(call.self, call.lhs, call.rhs))

\* self.compose(other); returned is self afterwards
Compose ==
    /\ call.fn = "compose" /\ ~call.done
    /\ Return(compose(call.self, call.other, call.hash))

\* goal.canonicalize(): returned is the goal afterwards and the mapping
Canonicalize ==
    /\ call.fn = "canonicalize" /\ ~call.done
    /\ Return(canonicalize(call.goal))

\* clause.canonicalize(): returned is the clause afterwards
CanonicalizeClause ==
    /\ call.fn = "canonicalize_clause" /\ ~call.done
    /\ Return(canonicalize_clause(call.clause))

CallsNext ==
    \/ UnifyTerms
    \/ UnifyPredicate
    \/ Compose
    \/ Canonicalize
    \/ CanonicalizeClause

Calls == CallsInit /\ [][CallsNext]_vars

\* ------------------------------------------- building a knowledge base
\* KnowledgeBase::add_clause called on clauses drawn from a bounded set,
\* starting from KnowledgeBase::new: added holds the clauses handed in.

\* clauses handed to add_clause on one knowledge base
MaxClauses == 3

\* clause.rs holds a Term::canonicalize_internal of its own, whose Atom arm
\* is todo!(): the walk over a term panics as soon as it reaches an atom
RECURSIVE canonicalize_internal_panics(_)
canonicalize_internal_panics(t) ==
    IF t.tag = "atom" THEN TRUE
    ELSE IF t.tag = "var" THEN FALSE
    ELSE \E i \in DOMAIN t.args : canonicalize_internal_panics(t.args[i])

\* Clause::canonicalize of clause.rs, which walks the head arguments and then
\* the arguments of the body goals with that canonicalize_internal
canonicalize_panics(clause) ==
    \/ \E i \in DOMAIN clause.head.arguments :
           canonicalize_internal_panics(clause.head.arguments[i])
    \/ \E g \in DOMAIN clause.body : \E i \in DOMAIN clause.body[g].predicate.arguments :
           canonicalize_internal_panics(clause.body[g].predicate.arguments[i])

\* the clauses handed to add_clause: facts with an atom, with variables that
\* are not canonical, with a compound term, and rules
AddedClauses ==
    { Fact("p", <<a>>),
      Fact("p", <<Variable(3)>>),
      Fact("q", <<Compound("f", <<Variable(5)>>), Variable(5)>>),
      Rule("p", <<V1>>, << G("q", <<Variable(4), V1>>) >>),
      Rule("q", <<V0, V1>>, << G("p", <<V1>>), G("q", <<V1, V0>>) >>),
      Rule("p", <<V0>>, << G("q", <<V0, b>>) >>) }

BuildingInit ==
    /\ program = 1
    /\ knowledge_base = EmptyKnowledgeBase
    /\ tables = [i \in {} |-> <<>>]
    /\ table_ids_by_goal = [g \in {} |-> 0]
    /\ stack = NewStack
    /\ goal_states = <<>>
    /\ fault = "none"
    /\ call = NoCall
    /\ observed = NoObservations
    /\ added = <<>>
    /\ arena = NewArena

\* KnowledgeBase::add_clause where clause.canonicalize() is the
\* Clause::canonicalize of canonicalize.rs
AddClause(clause) ==
    /\ fault = "none"
    /\ Len(added) < MaxClauses
    /\ added' = Append(added, clause)
    /\ knowledge_base' = add_clause(knowledge_base, clause)
    /\ UNCHANGED <<program, tables, table_ids_by_goal, stack, goal_states, fault, call,
                   observed, arena>>

\* KnowledgeBase::add_clause where clause.canonicalize() is the
\* Clause::canonicalize of clause.rs: a panic there unwinds before the push
AddClauseOfClauseRs(clause) ==
    /\ fault = "none"
    /\ Len(added) < MaxClauses
    /\ added' = Append(added, clause)
    /\ IF canonicalize_panics(clause)
       THEN fault' = "panic" /\ knowledge_base' = knowledge_base
       ELSE fault' = fault /\ knowledge_base' = add_clause(knowledge_base, clause)
    /\ UNCHANGED <<program, tables, table_ids_by_goal, stack, goal_states, call,
                   observed, arena>>

\* src/ holds two definitions of Clause::canonicalize; which of them the
\* call in add_clause resolves to is left open
BuildingNext ==
    \/ \E clause \in AddedClauses : AddClause(clause)
    \/ \E clause \in AddedClauses : AddClauseOfClauseRs(clause)

Building == BuildingInit /\ [][BuildingNext]_vars

\* ---------------------------------------------------- the arena on its own
\* An Arena<T, Serial>, from Arena::new, on which insert, insert_with_id and
\* remove are called; call holds the last call and what it returned.

\* the ids handed to insert_with_id and remove are 0..MaxId, and insert is
\* called while the generator is at most MaxId
MaxId == 2
Items == {"x", "y"}

\* Generator::next_id of Serial
next_id(generator) == [generator |-> generator + 1, id |-> generator]

\* State::explict_insert_with_id of Serial
explict_insert_with_id(generator, id) == IF id > generator THEN id ELSE generator

\* Arena::insert: HashMap::insert puts the item under the id, replacing what
\* was there, and the assertion fails when it replaced something
arena_insert(ar, item) ==
    LET n == next_id(ar.generator)
    IN [arena |-> [generator |-> n.generator,
                   items |-> (n.id :> item) @@ ar.items],
        id |-> n.id,
        panicked |-> n.id \in DOMAIN ar.items]

\* Arena::insert_with_id: Err(item) on an occupied id
arena_insert_with_id(ar, id, item) ==
    IF id \in DOMAIN ar.items
    THEN [arena |-> ar, returned |-> [ok |-> FALSE, item |-> item]]
    ELSE [arena |-> [generator |-> explict_insert_with_id(ar.generator, id),
                     items |-> (id :> item) @@ ar.items],
          returned |-> [ok |-> TRUE, item |-> ""]]

\* Arena::remove: the item removed, or None
arena_remove(ar, id) ==
    IF id \in DOMAIN ar.items
    THEN [arena |-> [ar EXCEPT !.items = [k \in DOMAIN ar.items \ {id} |-> ar.items[k]]],
          returned |-> [ok |-> TRUE, item |-> ar.items[id]]]
    ELSE [arena |-> ar, returned |-> [ok |-> FALSE, item |-> ""]]

ArenasInit ==
    /\ program = 1
    /\ knowledge_base = EmptyKnowledgeBase
    /\ tables = [i \in {} |-> <<>>]
    /\ table_ids_by_goal = [g \in {} |-> 0]
    /\ stack = NewStack
    /\ goal_states = <<>>
    /\ fault = "none"
    /\ call = NoCall
    /\ observed = NoObservations
    /\ added = <<>>
    /\ arena = NewArena

\* the arena and the value returned after a call
Returned(fn, id, item, r) ==
    /\ arena' = r.arena
    /\ call' = [fn |-> fn, done |-> TRUE, id |-> id, item |-> item,
                returned |-> r.returned]
    /\ UNCHANGED <<program, knowledge_base, tables, table_ids_by_goal, stack,
                   goal_states, observed, added>>

\* arena.insert(item); a failed assertion unwinds
Insert(item) ==
    /\ fault = "none"
    /\ arena.generator <= MaxId
    /\ LET r == arena_insert(arena, item)
       IN /\ Returned("insert", r.id, item,
                      [arena |-> r.arena,
                       returned |-> [ok |-> ~r.panicked, item |-> ""]])
          /\ fault' = IF r.panicked THEN "panic" ELSE fault

InsertWithId(id, item) ==
    /\ fault = "none"
    /\ Returned("insert_with_id", id, item, arena_insert_with_id(arena, id, item))
    /\ fault' = fault

Remove(id) ==
    /\ fault = "none"
    /\ Returned("remove", id, "", arena_remove(arena, id))
    /\ fault' = fault

ArenasNext ==
    \/ \E item \in Items : Insert(item)
    \/ \E id \in 0..MaxId, item \in Items : InsertWithId(id, item)
    \/ \E id \in 0..MaxId : Remove(id)

Arenas == ArenasInit /\ [][ArenasNext]_vars

\* ------------------------------------------------------------ fresh solver
\* What a caller observes who builds a fresh Solver on the knowledge base,
\* creates one goal state for the goal and pulls until the first none (at
\* most MaxPulls times): the solutions in the order they are returned.
RECURSIVE PullUntilNone(_, _, _, _)
PullUntilNone(s, goal_state, n, returned) ==
    IF n = 0 \/ s.fault # "none" THEN returned
    ELSE LET r == pull_next_goal([s EXCEPT !.fuel = MaxSteps], goal_state)
         IN IF ~r.result.ok THEN returned
            ELSE PullUntilNone(r.s, r.goal_state, n - 1, Append(returned, r.result.sub))

FreshSolutions(kb, goal, hash) ==
    LET r == create_goal_state(NewSolver(kb, hash), goal)
    IN PullUntilNone(r.s, r.goal_state, MaxPulls, <<>>)

\* ------------------------------------------------------- logical reference
\* The meaning the claims are measured against: the least Herbrand model of
\* the clauses over the atoms of the program and one atom that occurs
\* nowhere in it.
HasCompound(terms) ==
    \E i \in DOMAIN terms : terms[i].tag = "comp"

ClauseHasCompound(clause) ==
    \/ HasCompound(clause.head.arguments)
    \/ \E i \in DOMAIN clause.body : HasCompound(clause.body[i].predicate.arguments)

\* atoms and variables only, in heads and in bodies
IsDatalog(p) ==
    \A i \in DOMAIN Programs[p].clauses : ~ClauseHasCompound(Programs[p].clauses[i])

\* no compound term in any clause head
NoCompoundInHeads(p) ==
    \A i \in DOMAIN Programs[p].clauses :
        ~HasCompound(Programs[p].clauses[i].head.arguments)

\* every fact is ground
HasGroundFacts(p) ==
    \A i \in DOMAIN Programs[p].clauses :
        Programs[p].clauses[i].body = <<>>
            => PredicateVars(Programs[p].clauses[i].head) = {}

RECURSIVE TermAtoms(_)
TermAtoms(t) ==
    CASE t.tag = "atom" -> {t}
      [] t.tag = "var" -> {}
      [] OTHER -> UNION {TermAtoms(t.args[i]) : i \in DOMAIN t.args}

PredicateAtoms(p) == UNION {TermAtoms(p.arguments[i]) : i \in DOMAIN p.arguments}

ClauseAtoms(clause) ==
    PredicateAtoms(clause.head)
        \cup UNION {PredicateAtoms(clause.body[i].predicate) : i \in DOMAIN clause.body}

Universe(p) ==
    UNION {ClauseAtoms(Programs[p].clauses[i]) : i \in DOMAIN Programs[p].clauses}
        \cup UNION {PredicateAtoms(g.predicate) : g \in Programs[p].queries}
        \cup {Atom("z")}

\* the ground instances of a predicate over a set of atoms
GroundInstances(predicate, universe) ==
    {apply_predicate(theta, predicate) : theta \in [PredicateVars(predicate) -> universe]}

\* one round of the immediate-consequence operator
Consequences(clauses, universe, M) ==
    M \cup UNION { {apply_predicate(theta, clauses[i].head) :
                        theta \in {t \in [ClauseVars(clauses[i]) -> universe] :
                                      \A j \in DOMAIN clauses[i].body :
                                          apply_predicate(t, clauses[i].body[j].predicate) \in M}}
                   : i \in DOMAIN clauses }

RECURSIVE LeastFixpoint(_, _, _)
LeastFixpoint(clauses, universe, M) ==
    LET N == Consequences(clauses, universe, M)
    IN IF N = M THEN M ELSE LeastFixpoint(clauses, universe, N)

LeastModel ==
    [p \in DOMAIN Programs |->
        IF IsDatalog(p) THEN LeastFixpoint(Programs[p].clauses, Universe(p), {}) ELSE {}]

\* --------------------------------------------------- what the caller sees
\* the goal state has reported none
Done(i) == \E k \in DOMAIN goal_states[i].pulled : ~goal_states[i].pulled[k].ok

\* index of the first none of a goal state that has reported one
FirstNone(i) ==
    Min({k \in DOMAIN goal_states[i].pulled : ~goal_states[i].pulled[k].ok})

\* the solutions a goal state returned before its first none, in order
Solutions(i) ==
    LET n == IF Done(i) THEN FirstNone(i) - 1 ELSE Len(goal_states[i].pulled)
    IN [k \in 1..n |-> goal_states[i].pulled[k].sub]

Range(f) == {f[x] : x \in DOMAIN f}

\* ------------------------------------------------------------------ claims
\* C1 (completeness): on a knowledge base of atoms and variables only, once
\* a goal state has reported none, every binding of the goal's variables
\* that makes the goal a consequence of the knowledge base is an instance of
\* a solution returned before that none.
C1_Completeness ==
    \A i \in DOMAIN goal_states :
        (IsDatalog(program) /\ Done(i)) =>
            \A instance \in GroundInstances(goal_states[i].goal.predicate,
                                            Universe(program)) :
                instance \in LeastModel[program] =>
                    \E k \in DOMAIN Solutions(i) :
                        unify_predicate(EmptySubstitution,
                            apply_predicate(Solutions(i)[k],
                                            goal_states[i].goal.predicate),
                            instance).ok

\* C2 (soundness): every returned solution, applied to the user's goal,
\* yields an atom all of whose ground instances are consequences of the
\* knowledge base.
C2_Soundness ==
    \A i \in DOMAIN goal_states :
        IsDatalog(program) =>
            \A k \in DOMAIN goal_states[i].pulled :
                goal_states[i].pulled[k].ok =>
                    GroundInstances(
                        apply_predicate(goal_states[i].pulled[k].sub,
                                        goal_states[i].goal.predicate),
                        Universe(program)) \subseteq LeastModel[program]

C4_AnswerUniqueness ==
    \A id \in DOMAIN tables :
        \A i, j \in DOMAIN tables[id].answers :
            tables[id].answers[i] = tables[id].answers[j] => i = j

\* C5 (projection): every stored answer binds only variables up to the
\* table's max_inference_variable_index, and nothing when there is none.
C5_Projection ==
    \A id \in DOMAIN tables :
        \A i \in DOMAIN tables[id].answers :
            \A v \in DOMAIN tables[id].answers[i] :
                /\ tables[id].max_inference_variable_index # NoIndex
                /\ v <= tables[id].max_inference_variable_index

\* C6 (ground query): a goal without variables yields at most one solution,
\* whose mapping is empty, and only none afterwards.
C6_GroundQuery ==
    \A i \in DOMAIN goal_states :
        PredicateVars(goal_states[i].goal.predicate) = {} =>
            \A k \in DOMAIN goal_states[i].pulled :
                goal_states[i].pulled[k].ok =>
                    /\ k = 1
                    /\ goal_states[i].pulled[k].sub = EmptySubstitution

\* C7 (cross-query memoization): the set of solutions a goal state yields
\* until none is the set a fresh Solver yields for the goal.
C7_SameSetAsFresh ==
    \A i \in DOMAIN goal_states :
        Done(i) =>
            \A hash \in HashOrders :
                Range(Solutions(i))
                    = Range(FreshSolutions(knowledge_base, goal_states[i].goal, hash))

\* C8 (ordering): the sequence of solutions a goal state yields until none
\* is the sequence a fresh Solver yields for the goal, whatever was queried
\* before on the same Solver; stated for knowledge bases whose facts are
\* ground and whose answers therefore do not depend on the HashMap order.
C8_SameSequenceAsFresh ==
    \A i \in DOMAIN goal_states :
        (HasGroundFacts(program) /\ Done(i)) =>
            \A hash \in HashOrders :
                Solutions(i) = FreshSolutions(knowledge_base, goal_states[i].goal, hash)

\* C9 (determinism): what the only goal state of a fresh Solver has returned
\* so far is what any other run on the same knowledge base and goal returns,
\* pull for pull.
C9_Determinism ==
    Len(goal_states) = 1 =>
        \A hash \in HashOrders :
            \A k \in DOMAIN Solutions(1) :
                /\ k <= Len(FreshSolutions(knowledge_base, goal_states[1].goal, hash))
                /\ Solutions(1)[k]
                       = FreshSolutions(knowledge_base, goal_states[1].goal, hash)[k]

\* C10 (memoization in lockstep): goal states whose goals canonicalize to the
\* same goal share one table; the k-th pull of each returns the table's k-th
\* answer through that goal state's reverse mapping, and both report none at
\* the same index.
C10_Lockstep ==
    \A i, j \in DOMAIN goal_states :
        canonicalize(goal_states[i].goal).goal = canonicalize(goal_states[j].goal).goal =>
            /\ goal_states[i].state.table_id = goal_states[j].state.table_id
            /\ \A k \in DOMAIN goal_states[i].pulled :
                   goal_states[i].pulled[k].ok =>
                       /\ k <= Len(tables[goal_states[i].state.table_id].answers)
                       /\ \E hash \in HashOrders :
                              goal_states[i].pulled[k].sub =
                                  uncanonicalize_substitution(
                                      tables[goal_states[i].state.table_id].answers[k],
                                      goal_states[i].state.canonical_mapping, hash)
            /\ \A k \in DOMAIN goal_states[i].pulled \cap DOMAIN goal_states[j].pulled :
                   goal_states[i].pulled[k].ok = goal_states[j].pulled[k].ok

\* two goal states over differently named variables share a table and both
\* were pulled to none
C10_Witness ==
    \E i, j \in DOMAIN goal_states :
        /\ goal_states[i].goal # goal_states[j].goal
        /\ canonicalize(goal_states[i].goal).goal = canonicalize(goal_states[j].goal).goal
        /\ Done(i) /\ Done(j)
        /\ Len(Solutions(i)) >= 2
        /\ Len(Solutions(j)) >= 2

\* the goal state was told none because ensure_answer returned NoMoreSolutions
Exhausted(i) ==
    \E k \in DOMAIN goal_states[i].pulled :
        goal_states[i].pulled[k].ensured = "NoMoreSolutions"

\* C11 (exhaustion is permanent): once a pull through a goal state has ended
\* with NoMoreSolutions, no later call on the Solver, for this or any other
\* goal, makes the answers of that goal state's table grow, and every later
\* pull through a goal state standing at that position of the table reports
\* none again.
C11_ExhaustionIsPermanent ==
    [][\A i \in DOMAIN goal_states :
           Exhausted(i) =>
               /\ Len(tables'[goal_states[i].state.table_id].answers)
                      = Len(tables[goal_states[i].state.table_id].answers)
               /\ \A j \in DOMAIN goal_states :
                      (/\ goal_states[j].state.table_id = goal_states[i].state.table_id
                       /\ goal_states[j].state.answer_index
                              = goal_states[i].state.answer_index) =>
                          \A k \in DOMAIN goal_states'[j].pulled :
                              k > Len(goal_states[j].pulled) =>
                                  /\ ~goal_states'[j].pulled[k].ok
                                  /\ goal_states'[j].pulled[k].ensured
                                         = "NoMoreSolutions"]_vars

\* over the cyclic fact graph two goals were queried to their end, each with
\* at least one solution, and both goal states were pulled again after
\* their first none
C11_Witness ==
    /\ program = 3
    /\ Len(goal_states) = 2
    /\ \A i \in DOMAIN goal_states :
           /\ Exhausted(i)
           /\ Len(Solutions(i)) >= 1
           /\ Len(goal_states[i].pulled) > FirstNone(i)

\* No clause of the knowledge base has the goal's predicate name and a head
\* that unifies with the goal once renamed apart from it.
NoClauseMatches(goal) ==
    LET canonicalized_goal == canonicalize(goal).goal
        clauses == get_clauses(knowledge_base, canonicalized_goal.predicate.name)
        counter == IF max_variable_index(canonicalized_goal) = NoIndex THEN 0
                   ELSE max_variable_index(canonicalized_goal) + 1
    IN \A k \in DOMAIN clauses :
           ~unify_predicate(EmptySubstitution, canonicalized_goal.predicate,
                            canonicalize_with_counter(clauses[k], counter).head).ok

\* C12 (no solution): the table of a goal that no clause matches has no
\* answers and no strands, a pull through its goal state returns none without
\* a panic, and so did the first pull if one was made.
C12_NoSolution ==
    \A i \in DOMAIN goal_states :
        NoClauseMatches(goal_states[i].goal) =>
            /\ tables[goal_states[i].state.table_id].answers = <<>>
            /\ tables[goal_states[i].state.table_id].work_list = <<>>
            /\ \A hash \in HashOrders :
                   LET r == pull_next_goal(Solver(hash), goal_states[i].state)
                   IN /\ r.s.fault = "none"
                      /\ ~r.result.ok
                      /\ r.ensured = "NoMoreSolutions"
            /\ goal_states[i].pulled # <<>> => ~goal_states[i].pulled[1].ok

\* a goal over a predicate without clauses and a goal that no fact of its
\* predicate unifies with were both pulled
C12_Witness ==
    /\ program = 4
    /\ \E i, j \in DOMAIN goal_states :
           /\ goal_states[i].goal = G("s", <<V0>>)
           /\ goal_states[j].goal = G("p", <<b>>)
           /\ NoClauseMatches(goal_states[i].goal)
           /\ NoClauseMatches(goal_states[j].goal)
           /\ goal_states[i].pulled # <<>>
           /\ goal_states[j].pulled # <<>>

\* The arguments of the two predicates unify one pair after the other from
\* the left, each pair under the substitution the pairs before it produced.
RECURSIVE UnifyPairwise(_, _, _)
UnifyPairwise(sub, lhs, rhs) ==
    IF lhs = <<>> THEN Some(sub)
    ELSE IF unify_terms(sub, Head(lhs), Head(rhs)).ok
    THEN UnifyPairwise(unify_terms(sub, Head(lhs), Head(rhs)).sub, Tail(lhs), Tail(rhs))
    ELSE None

\* C13 (unifier): a substitution returned by unify_terms called on an
\* idempotent substitution makes the two terms structurally equal; and
\* unify_predicate succeeds exactly when the names are equal, the arities are
\* equal and the arguments unify pairwise with the substitution threaded
\* through, the substitution it returns being the one threaded through and
\* making the two predicates equal.
C13_Unifier ==
    /\ (call.fn = "unify_terms" /\ call.done /\ call.returned.ok) =>
           apply_term(call.returned.sub, call.lhs)
               = apply_term(call.returned.sub, call.rhs)
    /\ (call.fn = "unify_predicate" /\ call.done) =>
           /\ call.returned.ok <=>
                  /\ call.lhs.name = call.rhs.name
                  /\ Len(call.lhs.arguments) = Len(call.rhs.arguments)
                  /\ UnifyPairwise(call.self, call.lhs.arguments, call.rhs.arguments).ok
           /\ call.returned.ok =>
                  /\ call.returned
                         = UnifyPairwise(call.self, call.lhs.arguments, call.rhs.arguments)
                  /\ apply_predicate(call.returned.sub, call.lhs)
                         = apply_predicate(call.returned.sub, call.rhs)

\* unify_terms bound a variable under a substitution that already bound
\* another, on two compound terms with two arguments each
C13_Witness ==
    /\ call.fn = "unify_terms" /\ call.done /\ call.returned.ok
    /\ call.self # EmptySubstitution
    /\ call.lhs.tag = "comp" /\ Len(call.lhs.args) = 2
    /\ call.lhs # call.rhs
    /\ DOMAIN call.returned.sub = 0..MaxVariable
    /\ DOMAIN call.self # DOMAIN call.returned.sub

\* theta makes the two terms structurally equal
Unifies(theta, lhs, rhs) == apply_term(theta, lhs) = apply_term(theta, rhs)

\* C14 (most general unifier): when unify_terms called on the empty
\* substitution returns sigma, every substitution theta of Unifiers that
\* makes the two terms equal satisfies apply(theta, apply(sigma, x)) =
\* apply(theta, x) on every variable x, hence on every term; and when it
\* returns no substitution, no substitution of Unifiers makes the two terms
\* equal.
C14_MostGeneralUnifier ==
    (call.fn = "unify_terms" /\ call.done /\ call.self = EmptySubstitution) =>
        \A theta \in Unifiers :
            Unifies(theta, call.lhs, call.rhs) =>
                /\ call.returned.ok
                /\ \A x \in Variables :
                       apply_term(theta, apply_term(call.returned.sub, x))
                           = apply_term(theta, x)

\* unify_terms returned a substitution for two different compound terms
\* that several substitutions of Unifiers make equal, one of them binding a
\* variable the returned substitution leaves free
C14_Witness ==
    /\ call.fn = "unify_terms" /\ call.done /\ call.self = EmptySubstitution
    /\ call.returned.ok
    /\ call.lhs.tag = "comp" /\ call.lhs # call.rhs
    /\ call.returned.sub # EmptySubstitution
    /\ \E theta \in Unifiers :
           /\ Unifies(theta, call.lhs, call.rhs)
           /\ DOMAIN theta # DOMAIN call.returned.sub

\* C15 (idempotence): the substitution of every strand on a work-list and
\* every answer stored in a table is idempotent: no term it binds a variable
\* to contains a variable it binds.
C15_Idempotence ==
    \A id \in DOMAIN tables :
        /\ \A i \in DOMAIN tables[id].answers : IsIdempotent(tables[id].answers[i])
        /\ \A i \in DOMAIN tables[id].work_list :
               IsIdempotent(tables[id].work_list[i].substitution)

\* C16 (composition): applying self.compose(other) to a term equals applying
\* other to the result of applying self to the term, for every term.
C16_Composition ==
    (call.fn = "compose" /\ call.done) =>
        \A t \in Terms :
            apply_term(call.returned, t)
                = apply_term(call.other, apply_term(call.self, t))

\* the variable v occurs in the term t, which is not the variable itself
OccursIn(v, t) == v.tag = "var" /\ t # v /\ v.idx \in TermVars(t)

\* C17 (occurs-check): unify_terms returns no substitution when one side is
\* a variable that occurs in the other side and the other side is not that
\* variable, whether the two sides are taken as passed or after the current
\* substitution has been applied to them; every call returns a substitution
\* or no substitution.
C17_OccursCheck ==
    (call.fn = "unify_terms" /\ call.done) =>
        /\ call.returned.ok \in BOOLEAN
        /\ (\/ OccursIn(call.lhs, call.rhs)
            \/ OccursIn(call.rhs, call.lhs)
            \/ OccursIn(apply_term(call.self, call.lhs), apply_term(call.self, call.rhs))
            \/ OccursIn(apply_term(call.self, call.rhs), apply_term(call.self, call.lhs)))
               => ~call.returned.ok

\* unify_terms returned no substitution for a variable and a term in which
\* the variable occurs only once the current substitution is applied
C17_Witness ==
    /\ call.fn = "unify_terms" /\ call.done /\ ~call.returned.ok
    /\ call.lhs.tag = "var"
    /\ call.lhs.idx \notin DOMAIN call.self
    /\ call.lhs.idx \notin TermVars(call.rhs)
    /\ OccursIn(call.lhs, apply_term(call.self, call.rhs))

\* the variable indices of a term, one entry per occurrence, left to right
RECURSIVE Occurrences(_)
RECURSIVE OccurrencesOfAll(_)
OccurrencesOfAll(terms) ==
    IF terms = <<>> THEN <<>>
    ELSE Occurrences(Head(terms)) \o OccurrencesOfAll(Tail(terms))

Occurrences(t) ==
    IF t.tag = "var" THEN <<t.idx>>
    ELSE IF t.tag = "comp" THEN OccurrencesOfAll(t.args)
    ELSE <<>>

\* the arguments of a clause in the order head, then body goals
RECURSIVE BodyArguments(_)
BodyArguments(body) ==
    IF body = <<>> THEN <<>>
    ELSE Head(body).predicate.arguments \o BodyArguments(Tail(body))

ClauseArguments(clause) == clause.head.arguments \o BodyArguments(clause.body)

\* the first occurrence of every index of a sequence, in order
RECURSIVE FirstOccurrences(_, _)
FirstOccurrences(seq, seen) ==
    IF seq = <<>> THEN <<>>
    ELSE IF Head(seq) \in seen THEN FirstOccurrences(Tail(seq), seen)
    ELSE <<Head(seq)>> \o FirstOccurrences(Tail(seq), seen \cup {Head(seq)})

\* a term with every variable renamed through a function on indices
RECURSIVE Renamed(_, _)
Renamed(t, renaming) ==
    IF t.tag = "var" THEN Variable(renaming[t.idx])
    ELSE IF t.tag = "comp"
    THEN Compound(t.name, [i \in DOMAIN t.args |-> Renamed(t.args[i], renaming)])
    ELSE t

\* after is before with its variables renamed through a one-to-one renaming
\* onto 0..N-1, in the order in which the variables first occur in before
IsDenseRenaming(before, after, renaming) ==
    LET first == FirstOccurrences(OccurrencesOfAll(before), {})
    IN /\ DOMAIN renaming = Range(first)
       /\ \A k \in DOMAIN first : renaming[first[k]] = k - 1
       /\ Len(after) = Len(before)
       /\ \A i \in DOMAIN before : after[i] = Renamed(before[i], renaming)
       /\ FirstOccurrences(OccurrencesOfAll(after), {})
              = [k \in DOMAIN first |-> k - 1]

\* the renaming that numbers the variables in order of first occurrence
DenseRenaming(arguments) ==
    LET first == FirstOccurrences(OccurrencesOfAll(arguments), {})
    IN [v \in Range(first) |-> (CHOOSE k \in DOMAIN first : first[k] = v) - 1]

RECURSIVE MappedBack(_, _)
MappedBack(t, reverse) ==
    IF t.tag = "var"
    THEN IF t.idx \in DOMAIN reverse THEN Variable(reverse[t.idx]) ELSE t
    ELSE IF t.tag = "comp"
    THEN Compound(t.name, [i \in DOMAIN t.args |-> MappedBack(t.args[i], reverse)])
    ELSE t

\* C19 (solutions are in the user's variable space): every solution a goal
\* state returned binds only variables of the user's goal, and is the
\* table's answer at that index with every bound variable and every
\* variable inside a bound term mapped back through the goal state's
\* reverse mapping.
C19_UserVariableSpace ==
    \A i \in DOMAIN goal_states :
        \A k \in DOMAIN goal_states[i].pulled :
            goal_states[i].pulled[k].ok =>
                LET sub == goal_states[i].pulled[k].sub
                    reverse == goal_states[i].state.canonical_mapping
                    answer == tables[goal_states[i].state.table_id].answers[k]
                IN /\ DOMAIN sub \subseteq PredicateVars(goal_states[i].goal.predicate)
                   /\ DOMAIN answer \subseteq DOMAIN reverse
                   /\ DOMAIN sub = {reverse[v] : v \in DOMAIN answer}
                   /\ \A v \in DOMAIN answer :
                          sub[reverse[v]] = MappedBack(answer[v], reverse)

\* the clauses of the goal's predicate name, in insertion order, renamed
\* apart from the goal, that satisfy Test
MatchingClauses(canonicalized_goal, Test(_)) ==
    LET clauses == get_clauses(knowledge_base, canonicalized_goal.predicate.name)
        counter == IF max_variable_index(canonicalized_goal) = NoIndex THEN 0
                   ELSE max_variable_index(canonicalized_goal) + 1
        Matches(clause) ==
            /\ Test(clause)
            /\ unify_predicate(EmptySubstitution, canonicalized_goal.predicate,
                               canonicalize_with_counter(clause, counter).head).ok
        matching == SelectSeq(clauses, Matches)
    IN [k \in DOMAIN matching |-> canonicalize_with_counter(matching[k], counter)]

IsFact(clause) == clause.body = <<>>
IsRule(clause) == clause.body # <<>>

Unifier(canonicalized_goal, clause) ==
    unify_predicate(EmptySubstitution, canonicalized_goal.predicate, clause.head).sub

\* the table is as create_table leaves it: one answer per matching fact and
\* one strand per matching rule, both in insertion order
TableAsCreated(table) ==
    LET facts == MatchingClauses(table.canonicalized_goal, IsFact)
        rules == MatchingClauses(table.canonicalized_goal, IsRule)
    IN /\ Len(table.answers) = Len(facts)
       /\ \A k \in DOMAIN facts :
              table.answers[k] = Unifier(table.canonicalized_goal, facts[k])
       /\ Len(table.work_list) = Len(rules)
       /\ \A k \in DOMAIN rules :
              /\ table.work_list[k].substitution
                     = Unifier(table.canonicalized_goal, rules[k])
              /\ table.work_list[k].rest_subgoals = Tail(rules[k].body)
              /\ table.work_list[k].selected_subgoal =
                     canonicalize(Goal(apply_predicate(
                         Unifier(table.canonicalized_goal, rules[k]),
                         rules[k].body[1].predicate))).goal

\* every table that a create_goal_state call has just created is as
\* create_table leaves it
CreatedInOrder ==
    Len(goal_states') > Len(goal_states) =>
        \A id \in DOMAIN tables' \ DOMAIN tables : TableAsCreated(tables'[id])

\* for a goal over a predicate defined by facts only, the k-th solution is
\* the one of the k-th fact that matches the goal, in insertion order
FactsInOrder ==
    \A i \in DOMAIN goal_states :
        LET canonicalized_goal == canonicalize(goal_states[i].goal).goal
            clauses == get_clauses(knowledge_base, canonicalized_goal.predicate.name)
            facts == MatchingClauses(canonicalized_goal, IsFact)
        IN (\A n \in DOMAIN clauses : IsFact(clauses[n])) =>
               /\ Len(Solutions(i)) <= Len(facts)
               /\ Done(i) => Len(Solutions(i)) = Len(facts)
               /\ \A k \in DOMAIN Solutions(i) :
                      /\ \E hash \in HashOrders :
                             Solutions(i)[k] =
                                 uncanonicalize_substitution(
                                     Unifier(canonicalized_goal, facts[k]),
                                     goal_states[i].state.canonical_mapping, hash)
                      /\ PredicateVars(facts[k].head) = {} =>
                             apply_predicate(Solutions(i)[k],
                                             goal_states[i].goal.predicate)
                                 = facts[k].head

\* C20 (clause trial order): a table is created with the answers of the
\* matching facts in knowledge-base insertion order and one strand per
\* matching rule in insertion order; and a goal over a predicate defined by
\* facts only is given its solutions in the order the facts were added.
C20_ClauseTrialOrder ==
    []FactsInOrder /\ [][CreatedInOrder]_vars

\* the goal over the predicate defined by the facts s(b), s(a) was given b,
\* then a, then none; the table of the goal over the rule was created too
C20_Witness ==
    /\ program = 8
    /\ \E i, j \in DOMAIN goal_states :
           /\ goal_states[i].goal = G("s", <<V0>>)
           /\ Done(i)
           /\ Solutions(i) = <<(0 :> b), (0 :> a)>>
           /\ goal_states[j].goal = G("p", <<V0>>)

\* the clauses handed to add_clause under a head name, in the order added
AddedUnder(name) ==
    SelectSeq(added, LAMBDA clause : clause.head.name = name)

\* stored is clause with only its variables renamed, the variables numbered
\* 0..N-1 in order of first occurrence across the head and then the body
IsCanonicalFormOf(stored, clause) ==
    /\ stored.head.name = clause.head.name
    /\ Len(stored.head.arguments) = Len(clause.head.arguments)
    /\ Len(stored.body) = Len(clause.body)
    /\ \A i \in DOMAIN clause.body :
           /\ stored.body[i].predicate.name = clause.body[i].predicate.name
           /\ Len(stored.body[i].predicate.arguments)
                  = Len(clause.body[i].predicate.arguments)
    /\ IsDenseRenaming(ClauseArguments(clause), ClauseArguments(stored),
                       DenseRenaming(ClauseArguments(clause)))

\* every bucket holds the canonical forms of the clauses added under its
\* name, in the order added
BucketsHoldAdded ==
    /\ DOMAIN knowledge_base = {added[i].head.name : i \in DOMAIN added}
    /\ \A name \in DOMAIN knowledge_base :
           /\ Len(knowledge_base[name]) = Len(AddedUnder(name))
           /\ \A i \in DOMAIN knowledge_base[name] :
                  IsCanonicalFormOf(knowledge_base[name][i], AddedUnder(name)[i])

\* what a bucket held stays where it was
BucketsOnlyGrow ==
    \A name \in DOMAIN knowledge_base :
        /\ name \in DOMAIN knowledge_base'
        /\ Len(knowledge_base'[name]) >= Len(knowledge_base[name])
        /\ SubSeq(knowledge_base'[name], 1, Len(knowledge_base[name]))
               = knowledge_base[name]

\* C21 (the knowledge base is append-only and canonical): after any
\* sequence of add_clause calls, facts with atom arguments included, every
\* call has returned, every bucket holds exactly the clauses added under its
\* head name, each in canonical form, in insertion order with duplicates
\* kept, and no call removes, reorders or rewrites a clause stored before.
C21_AppendOnlyCanonical ==
    /\ [](fault = "none" /\ BucketsHoldAdded)
    /\ [][BucketsOnlyGrow]_vars

\* The same without the calls that do not return: whenever every add_clause
\* call so far has returned, the buckets hold the clauses added, and no step
\* removes, reorders or rewrites a stored clause.
C21_WhenNoCallPanics ==
    /\ [](fault = "none" => BucketsHoldAdded)
    /\ [][BucketsOnlyGrow]_vars

\* C22 (arena handles are fresh): in every step of an Arena with the Serial
\* generator, insert returns an id that no item of the arena held, its
\* assertion does not fail and every item the arena held is still there
\* unchanged; insert_with_id on an occupied id returns the item back as Err
\* and leaves the arena as it was.
C22_FreshHandles ==
    [][/\ call'.fn = "insert" =>
              /\ call'.id \notin DOMAIN arena.items
              /\ fault' = "none"
              /\ \A id \in DOMAIN arena.items :
                     id \in DOMAIN arena'.items /\ arena'.items[id] = arena.items[id]
       /\ (call'.fn = "insert_with_id" /\ call'.id \in DOMAIN arena.items) =>
              /\ call'.returned = [ok |-> FALSE, item |-> call'.item]
              /\ arena' = arena]_vars

\* C23 (memoized hit): every ensure_answer call for an answer index below
\* the length of the table's answers returned AnswerAvailable and left the
\* stack, the tables with their answers and work-lists, and the table ids
\* as they were, whether or not the table was on the stack.
C23_MemoizedHit ==
    \A o \in observed.ensure_answer :
        o.memoized => o.returned = "AnswerAvailable" /\ o.unchanged

\* a strand asked for an answer its table already had while that table was
\* on the stack
C23_Witness ==
    \E o \in observed.ensure_answer :
        o.memoized /\ o.active /\ o.returned = "AnswerAvailable"

\* the goal state points at an answer its table has, or at the next one
InOrder(state) ==
    /\ state.table_id \in DOMAIN tables
    /\ state.answer_index <= Len(tables[state.table_id].answers)

\* C24 (answers are consumed in order): whenever a call of
\* create_goal_state or pull_next_goal has returned, the answer_index of
\* every goal state of the caller and of the selected subgoal of every strand
\* in a work-list is at most the length of the answers of the table it
\* points at, and no ensure_answer call inside it, nested ones included, was
\* made with an index beyond that length, so that the assertion
\* answers.len() == answer_index did not fail.
C24_InOrderConsumption ==
    /\ \A o \in observed.ensure_answer : ~o.ahead
    /\ fault = "none" =>
           /\ \A k \in DOMAIN goal_states : InOrder(goal_states[k].state)
           /\ \A t \in DOMAIN tables : \A i \in DOMAIN tables[t].work_list :
                  InOrder(tables[t].work_list[i].selected_subgoal_state)

\* a goal state has consumed two answers, a strand in a work-list has
\* consumed one, and an ensure_answer call for the answer after the last
\* one passed the assertion and produced it
C24_Witness ==
    /\ \E k \in DOMAIN goal_states : goal_states[k].state.answer_index >= 2
    /\ \E t \in DOMAIN tables : \E i \in DOMAIN tables[t].work_list :
           tables[t].work_list[i].selected_subgoal_state.answer_index >= 1
    /\ \E o \in observed.ensure_answer :
           ~o.memoized /\ ~o.active /\ o.returned = "AnswerAvailable"

\* C25 (positive cycle detection): every ensure_answer call for the answer
\* after the last one of a table that was on the stack returned
\* PositiveCyclicDependency with the depth-first number stored in the
\* table's stack entry, and left the stack (nothing pushed), the work-lists
\* (no strand popped) and the tables as they were.
C25_PositiveCycleDetection ==
    \A o \in observed.ensure_answer :
        (o.active /\ ~o.memoized /\ ~o.ahead) =>
            /\ o.returned = "PositiveCyclicDependency"
            /\ o.dfn_of_active
            /\ o.unchanged

\* a cycle was detected on a table that was on the stack below another one
C25_Witness ==
    \E o \in observed.ensure_answer :
        /\ o.active /\ o.below_top /\ ~o.memoized
        /\ o.returned = "PositiveCyclicDependency"

\* C26 (stack discipline): every ensure_answer call that returned, with an
\* answer or with an error, left the entries of the stack as it found them;
\* the stack is empty whenever a call of the public surface has returned;
\* and no table was pushed while it was on the stack.
C26_StackDiscipline ==
    /\ \A o \in observed.ensure_answer : o.returned # "Fault" => o.entries_kept
    /\ \A o \in observed.push : ~o.duplicate
    /\ fault = "none" => stack.stack = <<>>

\* inside a pull_next_goal call that has returned, tables were pushed three
\* deep, and calls that pushed their table returned an answer, a positive
\* cycle and NoMoreSolutions
C26_Witness ==
    /\ fault = "none"
    /\ \E k \in DOMAIN goal_states : goal_states[k].pulled # <<>>
    /\ \E o \in observed.push : o.depth >= 2
    /\ \A kind \in {"AnswerAvailable", "PositiveCyclicDependency", "NoMoreSolutions"} :
           \E o \in observed.ensure_answer :
               ~o.memoized /\ ~o.active /\ o.returned = kind

\* C27 (depth-first numbers are monotone): every push inside a call assigned
\* a number greater than every number assigned before it, in this call or an
\* earlier one, and greater than the number of every entry on the stack, and
\* returned the index at which is_active then found the table; whenever a
\* call has returned, the counter is above every number assigned. As every
\* entry is pushed above the numbers below it, the numbers on the stack
\* increase from bottom to top throughout.
C27_MonotoneNumbers ==
    /\ \A o \in observed.push : o.above_assigned /\ o.above_stack /\ o.found
    /\ observed.highest < stack.counter

\* a table was pushed on two others after entries had been popped: its
\* number is above its index
C27_Witness ==
    /\ \E o \in observed.push : o.depth >= 2 /\ o.after_pop /\ o.found
    /\ observed.highest >= 3

\* C28 (no negative cycle under Horn clauses): whenever cyclic was called,
\* the depth-first number of the current table was at least the cyclic
\* counter, so that it did not take the NegativeCyclicDependency branch; no
\* ensure_answer call (and so no pull_next_answer call it wraps) returned
\* NegativeCyclicDependency, and no pull_next_goal ended with it.
C28_NoNegativeCycle ==
    /\ \A o \in observed.cyclic :
           o.ordering # "Less" /\ o.returned # "NegativeCyclicDependency"
    /\ \A o \in observed.ensure_answer : o.returned # "NegativeCyclicDependency"
    /\ \A k \in DOMAIN goal_states : \A i \in DOMAIN goal_states[k].pulled :
           goal_states[k].pulled[i].ensured # "NegativeCyclicDependency"

\* inside one call, cyclic was called on a table above the minimum of its
\* cycle and on the minimum itself
C28_Witness ==
    /\ \E o \in observed.cyclic :
           o.ordering = "Greater" /\ o.returned = "PositiveCyclicDependency"
    /\ \E o \in observed.cyclic :
           o.ordering = "Equal" /\ o.returned = "NoMoreSolutions"

\* C29 (closing a strongly connected component): whenever pull_next_answer
\* ran out of strands with delayed strands pending on a table whose
\* depth-first number equals the smallest cyclic number seen, cyclic
\* returned NoMoreSolutions, and afterwards the work-list of that table and
\* of every table reached from the delayed strands through the selected
\* subgoals of the strands in the work-lists was empty;
\* clear_strands_after_cycle returned, and no assertion failed.
C29_SccClosing ==
    /\ fault # "panic"
    /\ \A o \in observed.cyclic :
           o.ordering = "Equal" =>
               o.returned = "NoMoreSolutions" /\ o.on_top /\ o.reachable_emptied

\* a component was closed in which the work-lists of two tables were
\* emptied, one of them of a table whose strands lead back to itself
C29_Witness ==
    \E o \in observed.cyclic :
        /\ o.ordering = "Equal" /\ o.returned = "NoMoreSolutions"
        /\ o.emptied >= 2
        /\ o.cycle

\* a table with an empty work-list keeps it empty and gets no new answer
EmptyWorkListsStay ==
    \A t \in DOMAIN tables :
        tables[t].work_list = <<>> =>
            /\ t \in DOMAIN tables'
            /\ tables'[t].work_list = <<>>
            /\ tables'[t].answers = tables[t].answers

\* what the closing of a component dropped was dead, and nothing else lost
\* its work-list
OnlyDeadStrandsDropped ==
    \A o \in observed.cyclic :
        o.ordering = "Equal" =>
            o.all_dead /\ ~o.below_emptied /\ ~o.outside_emptied

\* C30 (only dead strands are discarded at the closing of a component):
\* every strand dropped by the closing - the delayed strands and the strands
\* of the work-lists clear_strands_after_cycle takes - was waiting for an
\* answer that does not exist, of a table that is left with an empty
\* work-list and is not in progress further down the stack; a table with an
\* empty work-list never gets a strand or an answer again, so the strand
\* could not have produced an answer in any continuation; and no work-list
\* was emptied of a table from which the closing table cannot be reached, or
\* of a table on the stack below the closing table.
C30_OnlyDeadStrandsDiscarded ==
    /\ []OnlyDeadStrandsDropped
    /\ [][EmptyWorkListsStay]_vars

\* the closing of a component emptied the work-list of a table, and a table
\* that has answers is left with an empty work-list
C30_Witness ==
    /\ \E o \in observed.cyclic : o.ordering = "Equal" /\ o.emptied >= 1
    /\ \E t \in DOMAIN tables : tables[t].work_list = <<>> /\ tables[t].answers # <<>>

\* C31 (cycle hand-off): every PositiveCyclicDependency returned by
\* ensure_answer carried the depth-first number of an entry that was on the
\* stack when it returned; whenever cyclic was called on a table whose
\* number is above the cyclic counter, it returned PositiveCyclicDependency
\* with the smallest of the numbers the delayed strands of that
\* pull_next_answer call were handed back with, and that number is the
\* number of an entry strictly below the table on the stack.
C31_CycleHandOff ==
    /\ \A o \in observed.ensure_answer :
           o.returned = "PositiveCyclicDependency" => o.dfn_on_stack
    /\ \A o \in observed.cyclic :
           o.ordering = "Greater" =>
               o.returned = "PositiveCyclicDependency" /\ o.minimum /\ o.below

\* a table handed on a cycle whose delayed strands came back with two
\* different numbers, and the ensure_answer call that had pushed a table
\* returned the cycle to a strand of the table below
C31_Witness ==
    /\ \E o \in observed.cyclic :
           o.ordering = "Greater" /\ o.several /\ o.minimum /\ o.below
    /\ \E o \in observed.ensure_answer :
           ~o.active /\ o.returned = "PositiveCyclicDependency" /\ o.dfn_on_stack

\* the strand is still in the work-list of its table, at the answer it was
\* at or further
StillThere(t, strand) ==
    /\ t \in DOMAIN tables'
    /\ \E j \in DOMAIN tables'[t].work_list :
           LET later == tables'[t].work_list[j]
           IN /\ later.rest_subgoals = strand.rest_subgoals
              /\ later.selected_subgoal = strand.selected_subgoal
              /\ later.substitution = strand.substitution
              /\ later.selected_subgoal_state.table_id
                     = strand.selected_subgoal_state.table_id
              /\ later.selected_subgoal_state.answer_index
                     >= strand.selected_subgoal_state.answer_index

\* a strand that is gone from its table had selected a table that is left
\* with an empty work-list: exhausted (the strand was stale) or closed
StrandsLeaveOnlyStaleOrClosed ==
    fault' = "none" =>
        \A t \in DOMAIN tables : \A i \in DOMAIN tables[t].work_list :
            \/ StillThere(t, tables[t].work_list[i])
            \/ tables'[tables[t].work_list[i].selected_subgoal_state.table_id]
                   .work_list = <<>>

\* C32 (delayed strands are not lost): whenever an ensure_answer call that
\* ran pull_next_answer returned AnswerAvailable (pull_next_answer returned
\* Ok) or PositiveCyclicDependency, every strand that was handed back with a
\* positive cycle during that pull_next_answer call was in the work-list of
\* its table, unchanged; and across every call of the public surface a
\* strand of a work-list is still in that work-list afterwards, at the same
\* or a later answer with the same substitution, unless the table it had
\* selected is left with an empty work-list.
C32_DelayedStrandsKept ==
    /\ [](\A o \in observed.ensure_answer : o.delayed_kept)
    /\ [][StrandsLeaveOnlyStaleOrClosed]_vars

\* a call returned an answer, and another a positive cycle, with strands
\* delayed and put back; a strand waits in a work-list for an answer that
\* its table does not have yet
C32_Witness ==
    /\ \E o \in observed.ensure_answer :
           o.had_delayed /\ o.delayed_kept /\ o.returned = "AnswerAvailable"
    /\ \E o \in observed.ensure_answer :
           o.had_delayed /\ o.delayed_kept /\ o.returned = "PositiveCyclicDependency"
    /\ \E t \in DOMAIN tables : \E i \in DOMAIN tables[t].work_list :
           IsWaiting(tables, tables[t].work_list[i])

\* C33 (FIFO work-lists, child before parent): every step on a strand left
\* the strands that were waiting in the work-list in their order and put
\* what it enqueued behind them; a fork enqueued the child and then the
\* parent, the child with the parent's substitution composed with the
\* consumed answer, the first of the remaining subgoals selected in
\* canonical form and answer_index 0, the parent with its subgoal and
\* answer_index one higher; and no strand that had forked was taken from the
\* work-list again before its child was.
C33_FifoChildFirst ==
    \A o \in observed.strand : o.enqueued /\ ~o.parent_first

\* a strand forked while other strands were waiting, and a call returned
\* with a forked child still waiting in front of its parent
C33_Witness ==
    /\ \E o \in observed.strand : o.forked /\ o.waiting /\ o.enqueued
    /\ observed.forks # {}

C35_LastSubgoalStep ==
    /\ \A o \in observed.strand :
           o.last => /\ o.inserted /\ o.enqueued
                     /\ o.reported = "NewAnswer" <=> o.grew = 1
                     /\ o.reported = "Progress" <=> o.grew = 0
    /\ \A o \in observed.strand : o.reported = "NewAnswer" => o.last
    /\ \A o \in observed.ensure_answer : o.new_answer

\* a last-subgoal step found a new answer, and another one an answer the
\* table already had
C35_Witness ==
    /\ \E o \in observed.strand : o.last /\ o.reported = "NewAnswer" /\ o.grew = 1
    /\ \E o \in observed.strand : o.last /\ o.reported = "Progress" /\ o.grew = 0

\* C36 (stale strands are dropped): whenever ensure_answer on the selected
\* subgoal of a strand returned NoMoreSolutions, the step reported Stale,
\* left the work-list and the answers of the strand's table as they were and
\* put the strand into no work-list; and pull_next_answer went on with the
\* strands that were left: an ensure_answer call returned NoMoreSolutions
\* only with the work-list of its table empty.
C36_StaleStrandsDropped ==
    /\ \A o \in observed.strand :
           o.ensured = "NoMoreSolutions" =>
               /\ o.reported = "Stale"
               /\ o.enqueued /\ o.dropped /\ o.answers_kept
    /\ \A o \in observed.strand : o.reported = "Stale" => o.ensured = "NoMoreSolutions"
    /\ \A o \in observed.ensure_answer : o.exhausted

\* a strand was stale while other strands were waiting in the work-list,
\* and the call that processed it went on to return an answer
C36_Witness ==
    /\ \E o \in observed.strand :
           o.ensured = "NoMoreSolutions" /\ o.reported = "Stale" /\ o.waiting
    /\ \E o \in observed.ensure_answer :
           ~o.memoized /\ o.returned = "AnswerAvailable"

\* the strands in the work-lists of the tables
AllStrands == UNION {Strands(tables[t].work_list) : t \in DOMAIN tables}

\* ids and tables correspond one to one, and every id held is the id of the
\* goal it is held for
TablesMatchGoals ==
    /\ \A g, h \in DOMAIN table_ids_by_goal :
           g # h => table_ids_by_goal[g] # table_ids_by_goal[h]
    /\ DOMAIN tables = {table_ids_by_goal[g] : g \in DOMAIN table_ids_by_goal}
    /\ \A g \in DOMAIN table_ids_by_goal :
           tables[table_ids_by_goal[g]].canonicalized_goal = g
    /\ \A strand \in AllStrands :
           /\ strand.selected_subgoal \in DOMAIN table_ids_by_goal
           /\ strand.selected_subgoal_state.table_id
                  = table_ids_by_goal[strand.selected_subgoal]
    /\ \A k \in DOMAIN goal_states :
           /\ canonicalize(goal_states[k].goal).goal \in DOMAIN table_ids_by_goal
           /\ goal_states[k].state.table_id
                  = table_ids_by_goal[canonicalize(goal_states[k].goal).goal]

\* a goal keeps its id and its table
TablesAreKept ==
    \A g \in DOMAIN table_ids_by_goal :
        /\ g \in DOMAIN table_ids_by_goal'
        /\ table_ids_by_goal'[g] = table_ids_by_goal[g]
        /\ (fault = "none" /\ fault' = "none") =>
               /\ table_ids_by_goal[g] \in DOMAIN tables'
               /\ Len(tables'[table_ids_by_goal[g]].answers)
                      >= Len(tables[table_ids_by_goal[g]].answers)

\* C37 (one table per canonical goal): whenever a call has returned, goals
\* and table ids correspond one to one, every id has its table in the arena
\* and that table is the table of the goal; the id held by every strand and
\* every goal state is the id registered for its canonical goal and has a
\* table; no call panicked (insert_with_id found no occupied id and
\* ensure_answer no missing table), also where the creation of a table asked
\* for the table of its own goal or of a goal under construction; and once a
\* goal has an id it keeps it, with its table.
C37_OneTablePerGoal ==
    /\ [](fault # "panic" /\ (fault = "none" => TablesMatchGoals))
    /\ [][TablesAreKept]_vars

\* two goal states of goals that differ in the names of their variables
\* share a table, and a strand of a table waits for an answer of that same
\* table: its creation asked for the table of its own goal
C37_Witness ==
    /\ fault = "none"
    /\ \E j, k \in DOMAIN goal_states :
           j # k /\ goal_states[j].state.table_id = goal_states[k].state.table_id
    /\ \E t \in DOMAIN tables : \E strand \in Strands(tables[t].work_list) :
           strand.selected_subgoal_state.table_id = t
    /\ Cardinality(DOMAIN tables) >= 2

\* the answers of every table are kept where they are; new ones come after
AnswersOnlyAppended ==
    fault' = "none" =>
        \A t \in DOMAIN tables :
            /\ t \in DOMAIN tables'
            /\ Len(tables'[t].answers) >= Len(tables[t].answers)
            /\ SubSeq(tables'[t].answers, 1, Len(tables[t].answers)) = tables[t].answers

\* C38 (answers are append-only): across every call of the public surface
\* the answers of every table afterwards begin with the answers it had
\* before, in the same order; so do, across every ensure_answer call inside
\* it, the answers of the table the call was made for; and an ensure_answer
\* call, and so the pull_next_answer call it wraps, left that table with at
\* most one answer more.
C38_AnswersAppendOnly ==
    /\ [](\A o \in observed.ensure_answer : o.answers_appended /\ o.grew \in {0, 1})
    /\ [][AnswersOnlyAppended]_vars

\* a table has three answers, a pull_next_answer call appended one, and
\* another one returned without a new answer
C38_Witness ==
    /\ \E t \in DOMAIN tables : Len(tables[t].answers) >= 3
    /\ \E o \in observed.ensure_answer : ~o.memoized /\ o.grew = 1
    /\ \E o \in observed.ensure_answer : ~o.memoized /\ ~o.active /\ o.grew = 0

\* C39 (only exhaustion surfaces): every ensure_answer call made with an
\* empty stack returned AnswerAvailable or NoMoreSolutions, and so did the
\* call behind every pull_next_goal that has returned; a goal state that was
\* told none stands at the end of the answers of a table whose work-list is
\* empty; and no call panicked.
C39_OnlyExhaustionSurfaces ==
    /\ fault # "panic"
    /\ \A o \in observed.ensure_answer :
           o.boundary => o.returned \in {"AnswerAvailable", "NoMoreSolutions"}
    /\ \A k \in DOMAIN goal_states : \A i \in DOMAIN goal_states[k].pulled :
           LET pulled == goal_states[k].pulled[i]
           IN /\ pulled.ensured \in {"AnswerAvailable", "NoMoreSolutions"}
              /\ pulled.ok <=> pulled.ensured = "AnswerAvailable"
              /\ ~pulled.ok =>
                     /\ tables[goal_states[k].state.table_id].work_list = <<>>
                     /\ goal_states[k].state.answer_index
                            = Len(tables[goal_states[k].state.table_id].answers)

\* a pull_next_goal call returned none after its goal state had been given
\* solutions; inside it a table handed a positive cycle on and the minimum
\* of the component closed it
C39_Witness ==
    /\ fault = "none"
    /\ \E k \in DOMAIN goal_states :
           /\ goal_states[k].pulled # <<>>
           /\ goal_states[k].pulled[1].ok
           /\ ~goal_states[k].pulled[Len(goal_states[k].pulled)].ok
    /\ \E o \in observed.ensure_answer : o.boundary /\ o.returned = "NoMoreSolutions"
    /\ \E o \in observed.cyclic : o.returned = "PositiveCyclicDependency"
    /\ \E o \in observed.cyclic : o.ordering = "Equal" /\ o.returned = "NoMoreSolutions"

\* C40 (freshness at table creation): every clause create_table tried was
\* renamed so that each of its variables has an index above the largest
\* variable index of the canonical goal (at least 0 when the goal has no
\* variable), and so shares no variable with the goal; and the variables of
\* the rest_subgoals and of the substitution of every strand create_table
\* built are variables of the goal or variables of the renamed clause.
C40_FreshnessAtCreation ==
    \A o \in observed.create_table :
        /\ o.step = "rename" => o.above /\ o.apart
        /\ o.step = "strand" => o.within

\* a clause with variables was renamed for a goal with variables, and a
\* strand was built that holds variables of the goal and of the clause
C40_Witness ==
    /\ \E o \in observed.create_table : o.step = "rename" /\ o.both /\ o.above
    /\ \E o \in observed.create_table : o.step = "strand" /\ o.mixed /\ o.within

====
